---- MODULE Spec2Model ----
(***************************************************************************)
(* A model of polarsens_img_analysis.py: the raw decoder readRawToNumpy,  *)
(* the mosaic splitter extractSubimages, the bilinear reconstruction      *)
(* do_bilinear and the polarimetry of computeStokes, computeDOLP and      *)
(* computeAOLP; of the uncertainty script snr-dolp.py; of the runs of     *)
(* example_polarsens_read_visualize.py and of                             *)
(* example_phx050s_raw_read_visualize.py; of the polarimetry of           *)
(* livestream_pol.py, the device wait of takeimage_phx.py and             *)
(* split_poldata of reduce_polarsens.py.  Each call or run is one action; *)
(* its inputs are drawn from bounded families, its locals and its outcome *)
(* are the state.  The live-stream loops of livestream_phx.py and         *)
(* livestream_pol.py are modelled statement by statement, one action per  *)
(* statement, so that an interrupt can fall between any two of them.      *)
(*                                                                         *)
(* A numpy 2-D array is a record [nr, nc, at]: its shape and its rows, a  *)
(* sequence of sequences; At(a, i, j) is a[i][j], 0-based.  A float64     *)
(* element is                                                             *)
(* held as the integer FloatScale * x: every value the functions below    *)
(* produce from integer samples is a multiple of 1/FloatScale and far     *)
(* below 2^53, so float64 arithmetic on them is exact.                    *)
(***************************************************************************)
EXTENDS Integers, Sequences, FiniteSets

VARIABLES
    call,          \* the function that was called: "none" before any call
    status,        \* how it ended: "returned", "SystemExit", "ValueError"; "none" before
    binary_array,  \* readRawToNumpy: the bytes of the raw file
    img_array_2d,  \* readRawToNumpy's result, extractSubimages' argument
    exit_code,     \* the argument of sys.exit, -1 while it was not called
    stdout,        \* the lines printed, each [text, values]
    subimages,     \* extractSubimages' result
    orientX,       \* do_bilinear's arguments ...
    rowOffset,
    colOffset,
    orientXfull,   \* ... and its locals
    fullAssigned,  \* the cells of orientXfull written by lines 151-160
    orientXcmos,
    populated,     \* the cells of orientXcmos written by line 163
    trimmedX,      \* do_bilinear's result
    intens,        \* computeStokes' arguments <<orient000, orient045, orient090, orient135>>
    stokes,        \* computeStokes' result <<S0, S1, S2>>, <<>> when it raised
    DOLP,          \* computeDOLP's result
    AOLP,          \* computeAOLP's result
    snr_in,        \* snr-dolp.py: the images <<i000, i045, i090, i135>> it reads
    snr_out,       \* its locals and result, pixel by pixel
    scale_k,       \* the factor of a second run on brighter images, 0 before
    snr_scaled,    \* the locals and result of that run
    storage,       \* the buffers of the calls made: a sequence of [fn, args, ret, written]
    ipfile,        \* the example script's input file [ext, bytes, img]
    ex_decoded,    \* how its reading ended: [status, line, imgArray, bpp]
    ex_sub,        \* s000, s045, s090, s135 of line 37, <<>> when not reached
    ex_bil,        \* the do_bilinear calls of lines 40-43 that were made
    ex_calls,      \* the offsets <<rowOffset, colOffset>> each of them was passed
    ex_line,       \* the line of the script at which its run ended, 0 before
    ex_done,       \* the stages the run completed
    lp_img,        \* livestream_pol.py: the frame nparray of one pass of its loop
    lp_stokes,     \* S0, S1, S2 of line 203
    lp_dolp,       \* res of line 204
    lp_aolp,       \* res of line 206
    dev_connected, \* the second at which a device gets connected, -1 for never
    dev_created,   \* the calls of system.create_device that were made
    dev_slept,     \* the seconds slept in time.sleep(1)
    dev_tries,     \* the local tries when the routine ended
    ls_script,     \* the live-stream script that runs: "phx", "pol", "" for none
    ls_pc,         \* the statement of livestream() it executes next
    ls_held,       \* the buffers got with get_buffer and not requeued
    ls_copies,     \* the copies made with BufferFactory.copy and not destroyed
    ls_streaming,  \* whether the stream is started and not stopped
    ls_device,     \* "created" or "destroyed"; "none" before
    ls_frames,     \* the passes of the loop that were completed
    sp_exists,     \* split_poldata: whether datadir has its four subdirectories
    sp_images,     \* the FITS images of datadir, each [raw, sw]
    sp_written     \* the FITS files written, each [image, POL_ANG, data]

vars == <<call, status, binary_array, img_array_2d, exit_code, stdout,
          subimages, orientX, rowOffset, colOffset, orientXfull,
          fullAssigned, orientXcmos, populated, trimmedX,
          intens, stokes, DOLP, AOLP, snr_in, snr_out, scale_k, snr_scaled,
          storage, ipfile, ex_decoded, ex_sub, ex_bil, ex_calls, ex_line,
          ex_done, lp_img, lp_stokes, lp_dolp, lp_aolp,
          dev_connected, dev_created, dev_slept, dev_tries,
          ls_script, ls_pc, ls_held, ls_copies, ls_streaming, ls_device,
          ls_frames, sp_exists, sp_images, sp_written>>

\* The variables of the polarimetry calls
polVars == <<intens, stokes, DOLP, AOLP>>

\* The variables of the runs of snr-dolp.py
snrVars == <<snr_in, snr_out, scale_k, snr_scaled>>

\* The variables of the run of the example script
exVars == <<ipfile, ex_decoded, ex_sub, ex_bil, ex_calls, ex_line, ex_done>>

\* The variables of the calls of polarsens_img_analysis.py, apart from call
\* and status
piaVars == <<binary_array, img_array_2d, exit_code, stdout, subimages, orientX,
             rowOffset, colOffset, orientXfull, fullAssigned, orientXcmos,
             populated, trimmedX, storage, polVars>>

\* The variables of one pass of the loop of livestream_pol.py
liveVars == <<lp_img, lp_stokes, lp_dolp, lp_aolp>>

\* The variables of the routine that waits for a device
devVars == <<dev_connected, dev_created, dev_slept, dev_tries>>

\* The variables of the live-stream loops
lsVars == <<ls_script, ls_pc, ls_held, ls_copies, ls_streaming, ls_device,
            ls_frames>>

\* The variables of split_poldata
splitVars == <<sp_exists, sp_images, sp_written>>

\* The variables of the acquisition and reduction scripts
otherVars == <<liveVars, devVars, lsVars, splitVars>>

\* The value of an array variable that holds no array
NoArray == [nr |-> -1, nc |-> -1, at |-> <<>>]

----------------------------------------------------------------------------
(* Bounds of the model.  The sensor geometry is scaled down: the decoder   *)
(* uses IMG_HEIGHT and IMG_WIDTH only through NPIX and the reshape.        *)

IMG_HEIGHT == 2

IMG_WIDTH == 3

MaxStep == 2

MaxExtra == 1

MaxN == 3

MaxCoef == 1

MaxPol == 2

MaxLevel == 3

MaxHalves == 3

MaxK == 2

MaxPixel == 3

MaxConnect == 31

MaxFrames == 2

MaxImages == 2

NPIX == IMG_HEIGHT * IMG_WIDTH

Byte == 0..255

----------------------------------------------------------------------------
(* numpy: arrays and dtypes                                                *)

\* a[i][j], 0-based
At(a, i, j) == a.at[i + 1][j + 1]

FloatScale == 8

Min(a, b) == IF a <= b THEN a ELSE b

Max(a, b) == IF a >= b THEN a ELSE b

\* A value stored in an int16 array: two's complement, 16 bits.
Int16(x) ==
    LET m == x % 65536
    IN  IF m >= 32768 THEN m - 65536 ELSE m

\* a.astype('int16')
AsInt16(a) == [k \in DOMAIN a |-> Int16(a[k])]

\* a.astype('float64') of an integer array
AsFloat64(a) == [nr |-> a.nr, nc |-> a.nc,
                 at |-> [i1 \in 1..(a.nr) |-> [j1 \in 1..(a.nc) |->
                     LET i == i1 - 1
                         j == j1 - 1
                     IN  FloatScale * At(a, i, j)]]]

----------------------------------------------------------------------------
(* numpy: shapes, slices, item assignment                                  *)

Indices(nr, nc) == (0..(nr - 1)) \X (0..(nc - 1))

Zeros(nr, nc) == [nr |-> nr, nc |-> nc, at |-> [i1 \in 1..nr |-> [j1 \in 1..nc |-> 0]]]

\* A slice bound on an axis of length n: negative counts from the end, and
\* the result is clipped to 0..n (Python's slice.indices, step > 0).
Clip(n, x) == IF x < 0 THEN Max(x + n, 0) ELSE Min(x, n)

\* The indices start:stop:step selects on an axis of length n, in order.
SliceIndices(n, start, stop, step) ==
    LET lo  == Clip(n, start)
        hi  == Clip(n, stop)
        len == IF hi > lo THEN (hi - lo + step - 1) \div step ELSE 0
    IN  [k \in 1..len |-> lo + (k - 1) * step]

\* a[rows, cols] for two slices
GetItem(a, rows, cols) ==
    [nr |-> Len(rows), nc |-> Len(cols),
     at |-> [i1 \in 1..(Len(rows)) |-> [j1 \in 1..(Len(cols)) |->
         LET i == i1 - 1
             j == j1 - 1
         IN  At(a, rows[i + 1], cols[j + 1])]]]

PosIn(seq, x) == CHOOSE k \in 1..Len(seq) : seq[k] = x

InSlice(seq, x) == \E k \in 1..Len(seq) : seq[k] = x

\* The cells a[rows, cols] names
TargetCells(rows, cols) ==
    {<<rows[i], cols[j]>> : i \in 1..Len(rows), j \in 1..Len(cols)}

\* Whether v can be broadcast to shape (tnr, tnc)
Broadcastable(v, tnr, tnc) == v.nr \in {1, tnr} /\ v.nc \in {1, tnc}

\* a[rows, cols] = v: the array after the assignment and the cells written,
\* or ok = FALSE when numpy raises ValueError (could not broadcast).
SetItem(a, rows, cols, v) ==
    IF ~Broadcastable(v, Len(rows), Len(cols))
    THEN [ok |-> FALSE, arr |-> a, cells |-> {}]
    ELSE [ok |-> TRUE,
          arr |-> [nr |-> a.nr, nc |-> a.nc,
                   at |-> [i1 \in 1..(a.nr) |-> [j1 \in 1..(a.nc) |->
                       LET i == i1 - 1
                           j == j1 - 1
                       IN  IF InSlice(rows, i) /\ InSlice(cols, j)
                           THEN At(v, IF v.nr = 1 THEN 0 ELSE PosIn(rows, i) - 1,
                                      IF v.nc = 1 THEN 0 ELSE PosIn(cols, j) - 1)
                           ELSE At(a, i, j)]]],
          cells |-> TargetCells(rows, cols)]

\* The next assignment of a sequence of assignments, skipped once one raised.
ThenSetItem(res, rows, cols, v) ==
    IF ~res.ok THEN res
    ELSE LET r == SetItem(res.arr, rows, cols, v)
         IN  [ok |-> r.ok, arr |-> r.arr, cells |-> res.cells \cup r.cells]

\* a + b, element by element (equal shapes, or broadcast along an axis of 1)
Add(a, b) ==
    LET nr == Max(a.nr, b.nr)
        nc == Max(a.nc, b.nc)
    IN  [nr |-> nr, nc |-> nc,
         at |-> [i1 \in 1..(nr) |-> [j1 \in 1..(nc) |->
             LET i == i1 - 1
                 j == j1 - 1
             IN  At(a, IF a.nr = 1 THEN 0 ELSE i, IF a.nc = 1 THEN 0 ELSE j)
               + At(b, IF b.nr = 1 THEN 0 ELSE i, IF b.nc = 1 THEN 0 ELSE j)]]]

\* a / 2: exact, every element halved here is an even multiple of 1/FloatScale
Quarter(a) == [nr |-> a.nr, nc |-> a.nc,
               at |-> [i1 \in 1..(a.nr) |-> [j1 \in 1..(a.nc) |->
                   LET i == i1 - 1
                       j == j1 - 1
                   IN  At(a, i, j) \div 4]]]

Halve(a) == [nr |-> a.nr, nc |-> a.nc,
             at |-> [i1 \in 1..(a.nr) |-> [j1 \in 1..(a.nc) |->
                 LET i == i1 - 1
                     j == j1 - 1
                 IN  At(a, i, j) \div 2]]]

----------------------------------------------------------------------------
(* readRawToNumpy                                                          *)

\* a[idx] of a 1-D array (held as a sequence, element k at position k + 1)
Take1D(a, idx) == [k \in 1..Len(idx) |-> a[idx[k] + 1]]

\* (odd_arr << 8) + evn_arr, both int16: each result wraps to 16 bits
ShiftAdd(odd_arr, evn_arr) ==
    [k \in DOMAIN odd_arr |-> Int16(Int16(odd_arr[k] * 256) + evn_arr[k])]

\* A faulty variant of Reshape: column-major (Fortran) order
ReshapeColMajor(a, h, w) ==
    [nr |-> h, nc |-> w,
     at |-> [r1 \in 1..(h) |-> [c1 \in 1..(w) |->
         LET r == r1 - 1
             c == c1 - 1
         IN  a[c * h + r + 1]]]]

\* a.reshape(h, w): row-major
Reshape(a, h, w) ==
    [nr |-> h, nc |-> w,
     at |-> [r1 \in 1..(h) |-> [c1 \in 1..(w) |->
         LET r == r1 - 1
             c == c1 - 1
         IN  a[r * w + c + 1]]]]

Line(text, values) == [text |-> text, values |-> values]

\* The outcome of readRawToNumpy on a file holding the bytes bytes.
ReadRawToNumpy(bytes) ==
    LET num_bytes == Len(bytes)
    IN  IF num_bytes = NPIX
        THEN [status |-> "returned", exit_code |-> -1,
              stdout |-> <<Line("Decoding 8-bit image: <rawfile>", <<>>)>>,
              img |-> Reshape(bytes, IMG_HEIGHT, IMG_WIDTH)]
        ELSE IF num_bytes = 2 * NPIX
        THEN LET evn_arr == AsInt16(Take1D(bytes, SliceIndices(num_bytes, 0, num_bytes, 2)))
                 odd_arr == AsInt16(Take1D(bytes, SliceIndices(num_bytes, 1, num_bytes, 2)))
                 pix_val == ShiftAdd(odd_arr, evn_arr)
             IN  [status |-> "returned", exit_code |-> -1,
                  stdout |-> <<Line("Decoding 12-bit image: <rawfile>", <<>>)>>,
                  img |-> Reshape(pix_val, IMG_HEIGHT, IMG_WIDTH)]
        ELSE [status |-> "SystemExit", exit_code |-> 0,
              stdout |-> <<Line("Unrecognized image format", <<>>)>>,
              img |-> NoArray]

----------------------------------------------------------------------------
(* extractSubimages                                                        *)

\* The slice ':' and the slices 'k::2' of an axis of length n
All(n) == SliceIndices(n, 0, n, 1)

\* A faulty variant of EveryOther: the slice starts at 0 whatever k is
EveryOtherFromZero(n, k) == SliceIndices(n, 0, n, 2)

EveryOther(n, k) == SliceIndices(n, k, n, 2)

\* A faulty variant of ExtractSubimages: the 45 and 135 degree slices exchanged
ExtractSubimagesSwapped(img) ==
    LET orient090 == AsFloat64(GetItem(img, EveryOther(img.nr, 0), EveryOther(img.nc, 0)))
        orient045 == AsFloat64(GetItem(img, EveryOther(img.nr, 1), EveryOther(img.nc, 0)))
        orient135 == AsFloat64(GetItem(img, EveryOther(img.nr, 0), EveryOther(img.nc, 1)))
        orient000 == AsFloat64(GetItem(img, EveryOther(img.nr, 1), EveryOther(img.nc, 1)))
    IN  <<orient000, orient045, orient090, orient135>>

\* lines 99-104: the four strided views as float64, returned as a 4-tuple
ExtractSubimages(img) ==
    LET orient090 == AsFloat64(GetItem(img, EveryOther(img.nr, 0), EveryOther(img.nc, 0)))
        orient045 == AsFloat64(GetItem(img, EveryOther(img.nr, 0), EveryOther(img.nc, 1)))
        orient135 == AsFloat64(GetItem(img, EveryOther(img.nr, 1), EveryOther(img.nc, 0)))
        orient000 == AsFloat64(GetItem(img, EveryOther(img.nr, 1), EveryOther(img.nc, 1)))
    IN  <<orient000, orient045, orient090, orient135>>

----------------------------------------------------------------------------
(* do_bilinear                                                             *)

\* A faulty variant of MidPt: the horizontal neighbour of vAv is not taken
MidPtOneSided(vAv) ==
    LET vAv_r == GetItem(vAv, All(vAv.nr), SliceIndices(vAv.nc, 0, -1, 1))
    IN  Halve(Add(vAv_r, vAv_r))

\* lines 142-144
MidPt(vAv) ==
    LET vAv_r == GetItem(vAv, All(vAv.nr), SliceIndices(vAv.nc, 0, -1, 1))
        vAv_l == GetItem(vAv, All(vAv.nr), SliceIndices(vAv.nc, 1, vAv.nc, 1))
    IN  Halve(Add(vAv_r, vAv_l))

\* A faulty variant of VAv: the row below is not taken
VAvTopOnly(grid) ==
    LET top == GetItem(grid, SliceIndices(grid.nr, 0, -1, 1), All(grid.nc))
    IN  Halve(Add(top, top))

\* lines 134-136
VAv(grid) ==
    LET top == GetItem(grid, SliceIndices(grid.nr, 0, -1, 1), All(grid.nc))
        bot == GetItem(grid, SliceIndices(grid.nr, 1, grid.nr, 1), All(grid.nc))
    IN  Halve(Add(top, bot))

\* lines 138-140
HAv(grid) ==
    LET left == GetItem(grid, All(grid.nr), SliceIndices(grid.nc, 0, -1, 1))
        rght == GetItem(grid, All(grid.nr), SliceIndices(grid.nc, 1, grid.nc, 1))
    IN  Halve(Add(left, rght))

\* lines 147-160: orientXfull and the cells of it that were assigned
Interleave(grid) ==
    LET nr  == grid.nr
        nc  == grid.nc
        fr  == 2 * nr - 1
        fc  == 2 * nc - 1
        vAv == VAv(grid)
        a0  == [ok |-> TRUE, arr |-> Zeros(fr, fc), cells |-> {}]
        a1  == ThenSetItem(a0, EveryOther(fr, 0), EveryOther(fc, 0), grid)
        a2  == ThenSetItem(a1, EveryOther(fr, 1), EveryOther(fc, 0), vAv)
        a3  == ThenSetItem(a2, EveryOther(fr, 0), EveryOther(fc, 1), HAv(grid))
    IN  ThenSetItem(a3, EveryOther(fr, 1), EveryOther(fc, 1), MidPt(vAv))

\* lines 162-164: the rows and the columns of orientXcmos the combined array
\* is assigned to.  The column slice ends at 2*nc - 1 + rowOffset.
PlaceRows(nr, r0) == SliceIndices(2 * nr, r0, 2 * nr - 1 + r0, 1)

PlaceCols(nc, r0, c0) == SliceIndices(2 * nc, c0, 2 * nc - 1 + r0, 1)

\* A faulty variant of Trimmed: only the first row and column are cut
TrimmedTopLeft(a) ==
    GetItem(a, SliceIndices(a.nr, 1, a.nr, 1), SliceIndices(a.nc, 1, a.nc, 1))

\* line 168: orientXcmos[1:-1, 1:-1]
Trimmed(a) ==
    GetItem(a, SliceIndices(a.nr, 1, -1, 1), SliceIndices(a.nc, 1, -1, 1))

\* The locals of do_bilinear when it returns or raises.
DoBilinear(grid, r0, c0) ==
    LET nr   == grid.nr
        nc   == grid.nc
        full == Interleave(grid)
        cmos == IF full.ok
                THEN SetItem(Zeros(2 * nr, 2 * nc), PlaceRows(nr, r0),
                             PlaceCols(nc, r0, c0), full.arr)
                ELSE [ok |-> FALSE, arr |-> Zeros(2 * nr, 2 * nc), cells |-> {}]
    IN  [status       |-> IF cmos.ok THEN "returned" ELSE "ValueError",
         orientXfull  |-> full.arr,
         fullAssigned |-> full.cells,
         orientXcmos  |-> cmos.arr,
         populated    |-> cmos.cells,
         trimmedX     |-> IF cmos.ok THEN Trimmed(cmos.arr) ELSE NoArray]

----------------------------------------------------------------------------
(* Polarimetry: computeStokes, computeDOLP, computeAOLP                    *)
(*                                                                         *)
(* The results of computeDOLP and computeAOLP are not multiples of         *)
(* 1/FloatScale.  A DoLP element sign * coef * sqrt(num / den) is held by  *)
(* these four integers, num / den in lowest terms, or it is one of IEEE    *)
(* 754's infinity and NaN; an AoLP                                         *)
(* element is held in half degrees, exactly where the angle is a multiple  *)
(* of 22.5 degrees and as the open interval between two such angles        *)
(* elsewhere.  The rounding of sqrt, of the division and of arctan2 is not *)
(* modelled.                                                               *)

\* Whether numpy broadcasts the shapes of a and b against each other
Compatible(a, b) ==
    /\ a.nr = b.nr \/ a.nr = 1 \/ b.nr = 1
    /\ a.nc = b.nc \/ a.nc = 1 \/ b.nc = 1

\* The element of a that broadcasting pairs with the cell (i, j)
Bc(a, i, j) == At(a, IF a.nr = 1 THEN 0 ELSE i, IF a.nc = 1 THEN 0 ELSE j)

\* a - b, element by element, with numpy's broadcasting
Sub(a, b) ==
    LET nr == Max(a.nr, b.nr)
        nc == Max(a.nc, b.nc)
    IN  [nr |-> nr, nc |-> nc,
         at |-> [i1 \in 1..(nr) |-> [j1 \in 1..(nc) |->
             LET i == i1 - 1
                 j == j1 - 1
             IN  Bc(a, i, j) - Bc(b, i, j)]]]

\* A faulty variant of ComputeStokes: S1 and S2 pair the wrong orientations.
ComputeStokesCrossed(orient000, orient045, orient090, orient135) ==
    LET t1 == Add(orient000, orient045)
        t2 == Add(t1, orient090)
        ok == /\ Compatible(orient000, orient045)
              /\ Compatible(t1, orient090)
              /\ Compatible(t2, orient135)
              /\ Compatible(orient000, orient090)
              /\ Compatible(orient045, orient135)
    IN  IF ~ok
        THEN [status |-> "ValueError", S0 |-> NoArray, S1 |-> NoArray, S2 |-> NoArray]
        ELSE [status |-> "returned",
              S0 |-> Halve(Add(t2, orient135)),
              S1 |-> Sub(orient000, orient045),
              S2 |-> Sub(orient090, orient135)]

\* A faulty variant of ComputeStokes: S0 is the mean of the four intensities.
ComputeStokesMeanS0(orient000, orient045, orient090, orient135) ==
    LET t1 == Add(orient000, orient045)
        t2 == Add(t1, orient090)
        ok == /\ Compatible(orient000, orient045)
              /\ Compatible(t1, orient090)
              /\ Compatible(t2, orient135)
              /\ Compatible(orient000, orient090)
              /\ Compatible(orient045, orient135)
    IN  IF ~ok
        THEN [status |-> "ValueError", S0 |-> NoArray, S1 |-> NoArray, S2 |-> NoArray]
        ELSE [status |-> "returned",
              S0 |-> Quarter(Add(t2, orient135)),
              S1 |-> Sub(orient000, orient090),
              S2 |-> Sub(orient045, orient135)]

\* computeStokes, lines 188-192.  A binary operation on arrays whose shapes
\* numpy cannot broadcast raises ValueError; one it can broadcast is done.
ComputeStokes(orient000, orient045, orient090, orient135) ==
    LET t1 == Add(orient000, orient045)
        t2 == Add(t1, orient090)
        ok == /\ Compatible(orient000, orient045)
              /\ Compatible(t1, orient090)
              /\ Compatible(t2, orient135)
              /\ Compatible(orient000, orient090)
              /\ Compatible(orient045, orient135)
    IN  IF ~ok
        THEN [status |-> "ValueError", S0 |-> NoArray, S1 |-> NoArray, S2 |-> NoArray]
        ELSE [status |-> "returned",
              S0 |-> Halve(Add(t2, orient135)),
              S1 |-> Sub(orient000, orient090),
              S2 |-> Sub(orient045, orient135)]

Sgn(x) == IF x > 0 THEN 1 ELSE IF x < 0 THEN -1 ELSE 0

RECURSIVE Gcd(_, _)
Gcd(m, n) == IF n = 0 THEN m ELSE Gcd(n, m % n)

\* The float64 results of computeDOLP: sign * coef * sqrt(num / den) for
\* num >= 0 and den > 0, or a sentinel
Finite(sign, coef, num, den) ==
    [kind |-> "finite", sign |-> sign, coef |-> coef,
     num |-> num \div Gcd(num, den), den |-> den \div Gcd(num, den)]

Infinity(sign) == [kind |-> "inf", sign |-> sign, coef |-> 1, num |-> 1, den |-> 1]

NaN == [kind |-> "nan", sign |-> 0, coef |-> 0, num |-> 0, den |-> 1]

\* A faulty variant of DolpPixel: the result is clamped to 100 percent.
DolpPixelClamped(s0, s1, s2) ==
    LET q == (s1 * s1) + (s2 * s2)
    IN  IF s0 = 0
        THEN IF q = 0 THEN NaN ELSE Infinity(1)
        ELSE IF s0 > 0 /\ q > s0 * s0
             THEN Finite(1, 100, 1, 1)
             ELSE Finite(Sgn(q) * Sgn(s0), 100, q, s0 * s0)

\* A faulty variant of DolpPixel: a zero divisor gives 0 in place of the
\* sentinels.
DolpPixelZeroGuard(s0, s1, s2) ==
    LET q == (s1 * s1) + (s2 * s2)
    IN  IF s0 = 0
        THEN Finite(0, 100, 0, 1)
        ELSE Finite(Sgn(q) * Sgn(s0), 100, q, s0 * s0)

\* Line 211 at one pixel: 100.0 * sqrt(S1*S1 + S2*S2) / S0.  The dividend is
\* never negative, and S0 is never -0.0 (x + -x is +0.0), so a zero divisor
\* gives +infinity, or NaN for 0/0; numpy warns and does not raise.
DolpPixel(s0, s1, s2) ==
    LET q == (s1 * s1) + (s2 * s2)
    IN  IF s0 = 0
        THEN IF q = 0 THEN NaN ELSE Infinity(1)
        ELSE Finite(Sgn(q) * Sgn(s0), 100, q, s0 * s0)

\* computeDOLP, lines 211-213.  The Stokes arrays of one computeStokes call
\* always broadcast against each other.
ComputeDOLP(S0, S1, S2) ==
    LET nr == Max(S0.nr, Max(S1.nr, S2.nr))
        nc == Max(S0.nc, Max(S1.nc, S2.nc))
    IN  [nr |-> nr, nc |-> nc,
         at |-> [i1 \in 1..(nr) |-> [j1 \in 1..(nc) |->
             LET i == i1 - 1
                 j == j1 - 1
             IN  DolpPixel(Bc(S0, i, j), Bc(S1, i, j), Bc(S2, i, j))]]]

\* An angle in half degrees: the value lo when lo = hi, a value strictly
\* between lo and hi otherwise
Exactly(a) == [lo |-> a, hi |-> a]

Between(a, b) == [lo |-> a, hi |-> b]

\* A faulty variant of Arctan2: the negative x axis is given -180 degrees.
Arctan2NegativePi(y, x) ==
    LET ax == IF x < 0 THEN -x ELSE x
        ay == IF y < 0 THEN -y ELSE y
        up == IF x > 0
              THEN IF ay = 0 THEN Exactly(0)
                   ELSE IF ay < ax THEN Between(0, 90)
                   ELSE IF ay = ax THEN Exactly(90)
                   ELSE Between(90, 180)
              ELSE IF x = 0
              THEN IF ay = 0 THEN Exactly(0) ELSE Exactly(180)
              ELSE IF ay = 0 THEN Exactly(-360)
                   ELSE IF ay < ax THEN Between(270, 360)
                   ELSE IF ay = ax THEN Exactly(270)
                   ELSE Between(180, 270)
    IN  IF y >= 0 THEN up ELSE [lo |-> -(up.hi), hi |-> -(up.lo)]

\* np.arctan2(y, x) in half degrees: 0 on the positive x axis and at the
\* origin, 360 (+pi) on the negative x axis, the sign of y elsewhere.  -pi is
\* the result for y = -0.0 and x < 0 only, and no element here is -0.0: the
\* samples are integers converted to float64, and a sum or a difference of
\* such values that is zero is +0.0.
Arctan2(y, x) ==
    LET ax == IF x < 0 THEN -x ELSE x
        ay == IF y < 0 THEN -y ELSE y
        up == IF x > 0
              THEN IF ay = 0 THEN Exactly(0)
                   ELSE IF ay < ax THEN Between(0, 90)
                   ELSE IF ay = ax THEN Exactly(90)
                   ELSE Between(90, 180)
              ELSE IF x = 0
              THEN IF ay = 0 THEN Exactly(0) ELSE Exactly(180)
              ELSE IF ay = 0 THEN Exactly(360)
                   ELSE IF ay < ax THEN Between(270, 360)
                   ELSE IF ay = ax THEN Exactly(270)
                   ELSE Between(180, 270)
    IN  IF y >= 0 THEN up ELSE [lo |-> -(up.hi), hi |-> -(up.lo)]

\* Line 232 at one pixel: rad2deg(0.5 * arctan2(S2, S1))
AolpPixel(s1, s2) ==
    LET a == Arctan2(s2, s1)
    IN  [lo |-> a.lo \div 2, hi |-> a.hi \div 2]

\* computeAOLP, lines 232-234
ComputeAOLP(S1, S2) ==
    LET nr == Max(S1.nr, S2.nr)
        nc == Max(S1.nc, S2.nc)
    IN  [nr |-> nr, nc |-> nc,
         at |-> [i1 \in 1..(nr) |-> [j1 \in 1..(nc) |->
             LET i == i1 - 1
                 j == j1 - 1
             IN  AolpPixel(Bc(S1, i, j), Bc(S2, i, j))]]]

----------------------------------------------------------------------------
(* snr-dolp.py, lines 28-47                                                *)
(*                                                                         *)
(* The script's float64 values are held as fractions num / den in lowest   *)
(* terms, den > 0, or as the sentinels that a division by zero gives.  The *)
(* images hold no negative sample, so no sum below is negative.            *)

Frac(num, den) ==
    [kind |-> "finite", num |-> num \div Gcd(num, den), den |-> den \div Gcd(num, den)]

FracInf == [kind |-> "inf", num |-> 1, den |-> 1]

FracNaN == [kind |-> "nan", num |-> 0, den |-> 1]

One == Frac(1, 1)

\* x + y, x - y, x * y for finite x and y or a non-negative infinity
FracAdd(x, y) ==
    IF x.kind = "nan" \/ y.kind = "nan" THEN FracNaN
    ELSE IF x.kind = "inf" \/ y.kind = "inf" THEN FracInf
    ELSE Frac((x.num * y.den) + (y.num * x.den), x.den * y.den)

FracSub(x, y) == Frac((x.num * y.den) - (y.num * x.den), x.den * y.den)

FracMul(x, y) == Frac(x.num * y.num, x.den * y.den)

\* x / y for x >= 0 and y >= 0: x / 0 is infinity, 0 / 0 is NaN and
\* x / infinity is 0
FracDiv(x, y) ==
    IF x.kind = "nan" \/ y.kind = "nan" THEN FracNaN
    ELSE IF y.kind = "inf" THEN (IF x.kind = "inf" THEN FracNaN ELSE Frac(0, 1))
    ELSE IF x.kind = "inf" THEN FracInf
    ELSE IF y.num = 0 THEN (IF x.num = 0 THEN FracNaN ELSE FracInf)
    ELSE Frac(x.num * y.den, x.den * y.num)

\* x < y for finite x >= 0 and y >= 0, by their continued fractions so that
\* no product is formed
RECURSIVE FracLess(_, _)
FracLess(x, y) ==
    LET xi == x.num \div x.den
        yi == y.num \div y.den
        xr == x.num % x.den
        yr == y.num % y.den
    IN  IF xi # yi THEN xi < yi
        ELSE IF yr = 0 THEN FALSE
        ELSE IF xr = 0 THEN TRUE
        ELSE FracLess([kind |-> "finite", num |-> y.den, den |-> yr],
                      [kind |-> "finite", num |-> x.den, den |-> xr])

\* A faulty variant of SnrPixel: h2 is raised to 1 only where it is 0.
SnrPixelZeroOnly(i000, i045, i090, i135) ==
    LET a == Frac(i000, FloatScale)
        b == Frac(i045, FloatScale)
        c == Frac(i090, FloatScale)
        d == Frac(i135, FloatScale)
        pS0 == FracDiv(FracAdd(FracAdd(FracAdd(a, b), c), d), Frac(2, 1))
        pS1 == FracSub(a, c)
        pS2 == FracSub(b, d)
        del_S1sq == FracAdd(a, c)
        del_S2sq == FracAdd(b, d)
        S1sq == FracMul(pS1, pS1)
        S2sq == FracMul(pS2, pS2)
        h    == FracAdd(S1sq, S2sq)
        hh   == FracMul(h, h)
        h2   == IF hh.num = 0 THEN One ELSE hh
        del_dolp_over_dolp_sq ==
            FracAdd(FracDiv(FracAdd(FracMul(S1sq, del_S1sq), FracMul(S2sq, del_S2sq)), h2),
                    FracDiv(Frac(1, 2), pS0))
    IN  [S0 |-> pS0, S1 |-> pS1, S2 |-> pS2, h2 |-> h2,
         del_dolp_over_dolp_sq |-> del_dolp_over_dolp_sq,
         snr_dolp_sq |-> FracDiv(One, del_dolp_over_dolp_sq)]

\* A faulty variant of SnrPixel: line 39, the squaring of h2, is left out.
SnrPixelNoSquare(i000, i045, i090, i135) ==
    LET a == Frac(i000, FloatScale)
        b == Frac(i045, FloatScale)
        c == Frac(i090, FloatScale)
        d == Frac(i135, FloatScale)
        pS0 == FracDiv(FracAdd(FracAdd(FracAdd(a, b), c), d), Frac(2, 1))
        pS1 == FracSub(a, c)
        pS2 == FracSub(b, d)
        del_S1sq == FracAdd(a, c)
        del_S2sq == FracAdd(b, d)
        S1sq == FracMul(pS1, pS1)
        S2sq == FracMul(pS2, pS2)
        h    == FracAdd(S1sq, S2sq)
        h2   == IF FracLess(h, One) THEN One ELSE h
        del_dolp_over_dolp_sq ==
            FracAdd(FracDiv(FracAdd(FracMul(S1sq, del_S1sq), FracMul(S2sq, del_S2sq)), h2),
                    FracDiv(Frac(1, 2), pS0))
    IN  [S0 |-> pS0, S1 |-> pS1, S2 |-> pS2, h2 |-> h2,
         del_dolp_over_dolp_sq |-> del_dolp_over_dolp_sq,
         snr_dolp_sq |-> FracDiv(One, del_dolp_over_dolp_sq)]

\* Lines 28-47 at one pixel, from the float64 samples of the four images.
\* del_S1 * del_S1 is taken as i000 + i090: the sum is not negative, and the
\* rounding of the square root is not modelled.  dolp of line 31 is not used
\* by what follows and is left out.  snr_dolp = 1.0 / sqrt(x) is held by its
\* square 1 / x.
SnrPixel(i000, i045, i090, i135) ==
    LET a == Frac(i000, FloatScale)
        b == Frac(i045, FloatScale)
        c == Frac(i090, FloatScale)
        d == Frac(i135, FloatScale)
        pS0 == FracDiv(FracAdd(FracAdd(FracAdd(a, b), c), d), Frac(2, 1))
        pS1 == FracSub(a, c)
        pS2 == FracSub(b, d)
        del_S1sq == FracAdd(a, c)
        del_S2sq == FracAdd(b, d)
        S1sq == FracMul(pS1, pS1)
        S2sq == FracMul(pS2, pS2)
        h    == FracAdd(S1sq, S2sq)
        hh   == FracMul(h, h)
        h2   == IF FracLess(hh, One) THEN One ELSE hh
        del_dolp_over_dolp_sq ==
            FracAdd(FracDiv(FracAdd(FracMul(S1sq, del_S1sq), FracMul(S2sq, del_S2sq)), h2),
                    FracDiv(Frac(1, 2), pS0))
    IN  [S0 |-> pS0, S1 |-> pS1, S2 |-> pS2, h2 |-> h2,
         del_dolp_over_dolp_sq |-> del_dolp_over_dolp_sq,
         snr_dolp_sq |-> FracDiv(One, del_dolp_over_dolp_sq)]

\* The script on four images of one shape
SnrDolp(i000, i045, i090, i135) ==
    [nr |-> i000.nr, nc |-> i000.nc,
     at |-> [i1 \in 1..(i000.nr) |-> [j1 \in 1..(i000.nc) |->
         LET i == i1 - 1
             j == j1 - 1
         IN  SnrPixel(At(i000, i, j), At(i045, i, j), At(i090, i, j), At(i135, i, j))]]]

\* k * a for a whole factor k
Scaled(k, a) ==
    [nr |-> a.nr, nc |-> a.nc,
     at |-> [i1 \in 1..(a.nr) |-> [j1 \in 1..(a.nc) |->
         LET i == i1 - 1
             j == j1 - 1
         IN  k * At(a, i, j)]]]

----------------------------------------------------------------------------
(* The storage of the arrays                                               *)
(*                                                                         *)
(* Every numpy array lies in a buffer.  Within one call the buffers of the *)
(* arguments are numbered 1, 2, ... and each array the function allocates  *)
(* takes the next number.  A call is recorded as [fn, args, ret, written]: *)
(* the buffers of its arguments, of the arrays it returns, and those it    *)
(* assigns into.                                                           *)

\* a[i:j, k:l]: basic slicing gives a view, an array in the buffer of a
ViewOf(buf) == buf

\* A faulty variant of Astype: no copy is made.
AstypeNoCopy(buf, new) == buf

\* a.astype('float64'): always a newly allocated array (copy=True)
Astype(buf, new) == new

\* extractSubimages, lines 99-102: four strided views, each converted
ExtractSubimagesStorage(arg) ==
    [fn |-> "extractSubimages",
     args |-> {arg},
     ret |-> {Astype(ViewOf(arg), arg + k) : k \in 1..4},
     written |-> {}]

\* do_bilinear: top, bot, left, rght (lines 134-139) are views of orientX
\* and are only read; the sums and the halvings allocate vAv and hAv;
\* orientXfull and orientXcmos come from np.zeros (lines 147-148) and are
\* assigned into; trimmedX (line 168) is a view of orientXcmos.  A call
\* that raises in the assignment into orientXcmos returns nothing.
DoBilinearStorage(arg, raised) ==
    LET top  == ViewOf(arg)
        left == ViewOf(arg)
        vAv  == arg + 2
        hAv  == arg + 4
        orientXfullBuf == arg + 5
        orientXcmosBuf == arg + 6
        trimmedXBuf    == ViewOf(orientXcmosBuf)
    IN  [fn |-> "do_bilinear",
         args |-> {arg},
         ret |-> IF raised THEN {} ELSE {trimmedXBuf},
         written |-> IF raised THEN {orientXfullBuf}
                               ELSE {orientXfullBuf, orientXcmosBuf}]

\* computeStokes, lines 188-190: every operator allocates its result; S0 is
\* the fourth array allocated, S1 and S2 the next two
ComputeStokesStorage(first) ==
    [fn |-> "computeStokes",
     args |-> first..(first + 3),
     ret |-> {first + 7, first + 8, first + 9},
     written |-> {}]

\* computeDOLP, line 211: two products, a sum, a root, a product, a quotient
ComputeDOLPStorage(bufS0, bufS1, bufS2, new) ==
    [fn |-> "computeDOLP",
     args |-> {bufS0, bufS1, bufS2},
     ret |-> {new + 5},
     written |-> {}]

\* computeAOLP, line 232: arctan2, a product, rad2deg
ComputeAOLPStorage(bufS1, bufS2, new) ==
    [fn |-> "computeAOLP",
     args |-> {bufS1, bufS2},
     ret |-> {new + 2},
     written |-> {}]

----------------------------------------------------------------------------
(* The inputs                                                              *)

\* A file of len bytes: seed, seed + step, seed + 2*step, ... (mod 256)
RampBuffer(len, seed, step) == [k \in 1..len |-> (seed + step * (k - 1)) % 256]

\* An integer image of shape (h, w) with the samples of a ramp
RampImage(h, w, seed, step) == Reshape(RampBuffer(h * w, seed, step), h, w)

\* An orientation grid of shape (nr, nc): float64 samples a + b*i + c*j + d*i*j
PatternGrid(nr, nc, a, b, c, d) ==
    [nr |-> nr, nc |-> nc,
     at |-> [i1 \in 1..(nr) |-> [j1 \in 1..(nc) |->
         LET i == i1 - 1
             j == j1 - 1
         IN  FloatScale * (a + b * i + c * j + d * i * j)]]]

\* The intensity levels of the polarimetry inputs: 0, 1, 100, -1, 0.5, 2, ...
Level(n) ==
    CASE n = 0 -> 0
      [] n = 1 -> FloatScale
      [] n = 2 -> 100 * FloatScale
      [] n = 3 -> -FloatScale
      [] n = 4 -> FloatScale \div 2
      [] OTHER -> (n - 3) * FloatScale

\* An intensity image of shape (nr, nc): the level v, rising by g per row
\* and per column
IntensityGrid(nr, nc, v, g) ==
    [nr |-> nr, nc |-> nc,
     at |-> [i1 \in 1..(nr) |-> [j1 \in 1..(nc) |->
         LET i == i1 - 1
             j == j1 - 1
         IN  Level(v) + FloatScale * g * (i + j)]]]

\* The shapes tried for orient000 beside the (nr, nc) of the other three
OddShape(kind, nr, nc) ==
    CASE kind = "same"   -> <<nr, nc>>
      [] kind = "row"    -> <<1, nc>>
      [] kind = "taller" -> <<nr + 1, nc>>

\* An image of shape (nr, nc) for snr-dolp.py: the sample v/2, rising by g
\* per row and per column
HalfStepGrid(nr, nc, v, g) ==
    [nr |-> nr, nc |-> nc,
     at |-> [i1 \in 1..(nr) |-> [j1 \in 1..(nc) |->
         LET i == i1 - 1
             j == j1 - 1
         IN  (v * (FloatScale \div 2)) + (FloatScale * g * (i + j))]]]

\* A uint8 frame of shape (2h, 2w): the four positions of a 2 x 2 cell hold
\* the levels lev[1..4], raised by g from one cell to the next
LiveFrame(h, w, lev, g) ==
    [nr |-> 2 * h, nc |-> 2 * w,
     at |-> [r1 \in 1..(2 * h) |-> [c1 \in 1..(2 * w) |->
         LET r == r1 - 1
             c == c1 - 1
         IN  (lev[2 * (r % 2) + (c % 2) + 1] + g * ((r \div 2) + (c \div 2))) % 256]]]

----------------------------------------------------------------------------
(* livestream_pol.py: the polarimetry of one frame, lines 90-111           *)

\* getHalfResStokesFromFullResImage, lines 90-101
GetHalfResStokesFromFullResImage(img_array) ==
    LET orient_090 == AsFloat64(GetItem(img_array, EveryOther(img_array.nr, 0),
                                        EveryOther(img_array.nc, 0)))
        orient_045 == AsFloat64(GetItem(img_array, EveryOther(img_array.nr, 0),
                                        EveryOther(img_array.nc, 1)))
        orient_135 == AsFloat64(GetItem(img_array, EveryOther(img_array.nr, 1),
                                        EveryOther(img_array.nc, 0)))
        orient_000 == AsFloat64(GetItem(img_array, EveryOther(img_array.nr, 1),
                                        EveryOther(img_array.nc, 1)))
    IN  <<Halve(Add(Add(Add(orient_000, orient_045), orient_090), orient_135)),
          Sub(orient_000, orient_090),
          Sub(orient_045, orient_135)>>

\* Line 105 at one pixel: 100.0 * sqrt(S1*S1 + S2*S2) / (S0 + 1); the float
\* 1.0 is FloatScale
GetDolpPixel(s0, s1, s2) == DolpPixel(s0 + FloatScale, s1, s2)

\* getDolpFromStokes, lines 104-106
GetDolpFromStokes(S0, S1, S2) ==
    [nr |-> S0.nr, nc |-> S0.nc,
     at |-> [i1 \in 1..(S0.nr) |-> [j1 \in 1..(S0.nc) |->
         LET i == i1 - 1
             j == j1 - 1
         IN  GetDolpPixel(At(S0, i, j), At(S1, i, j), At(S2, i, j))]]]

\* getAolpFromStokes, lines 109-111: rad2deg(0.5 * arctan2(S2, S1))
GetAolpFromStokes(S0, S1, S2) ==
    [nr |-> S1.nr, nc |-> S1.nc,
     at |-> [i1 \in 1..(S1.nr) |-> [j1 \in 1..(S1.nc) |->
         LET i == i1 - 1
             j == j1 - 1
         IN  AolpPixel(At(S1, i, j), At(S2, i, j))]]]

----------------------------------------------------------------------------
(* takeimage_phx.py: update_create_devices, lines 23-45.  The routine       *)
(* create_devices_with_tries of livestream_phx.py (lines 37-59) and of     *)
(* livestream_pol.py (lines 65-87) has the same text.                      *)

tries_max == 3

sleep_time_secs == 10

\* system.create_device() after slept seconds: whether it finds a device
\* that gets connected at second connected (-1: never)
Detected(connected, slept) == connected >= 0 /\ connected <= slept

\* Lines 37-41, the loop for sec_count in range(sleep_time_secs) from
\* sec_count on: each pass sleeps one second, prints and adds one to tries.
RECURSIVE ForSecCount(_, _, _)
ForSecCount(sec_count, tries, slept) ==
    IF sec_count < sleep_time_secs
    THEN ForSecCount(sec_count + 1, tries + 1, slept + 1)
    ELSE [tries |-> tries, slept |-> slept]

\* Lines 31-45, the loop while tries < tries_max with its else clause
RECURSIVE WhileTries(_, _, _, _)
WhileTries(tries, created, slept, connected) ==
    IF tries < tries_max
    THEN IF ~Detected(connected, slept)
         THEN LET after == ForSecCount(0, tries, slept)
              IN  WhileTries(after.tries, created + 1, after.slept, connected)
         ELSE [status |-> "returned", created |-> created + 1, slept |-> slept,
               tries |-> tries]
    ELSE [status |-> "Exception", created |-> created, slept |-> slept,
          tries |-> tries]

----------------------------------------------------------------------------
(* reduce_polarsens.py: split_poldata, lines 40-152                        *)

\* The rows and columns the crops of lines 108 and 124 remove
CROP_ROWS == 22

CROP_COLS == 12

\* A 16-bit FITS image of shape (CROP_ROWS + 2h, CROP_COLS + 2w): the 12-bit
\* sample r*W + c stretched by 16, plus fill < 16
RawFits(h, w, fill) ==
    [nr |-> CROP_ROWS + 2 * h, nc |-> CROP_COLS + 2 * w,
     at |-> [r1 \in 1..(CROP_ROWS + 2 * h) |-> [c1 \in 1..(CROP_COLS + 2 * w) |->
         LET r == r1 - 1
             c == c1 - 1
         IN  16 * (r * (CROP_COLS + 2 * w) + c) + (fill % 16)]]]

\* line 108: img_array_raw[0:-22, 0:-12]
CropSharpCap(img) ==
    GetItem(img, SliceIndices(img.nr, 0, -CROP_ROWS, 1),
            SliceIndices(img.nc, 0, -CROP_COLS, 1))

\* A faulty variant of CropNina: one row less is removed
CropNinaOddRows(img) ==
    GetItem(img, SliceIndices(img.nr, CROP_ROWS - 1, img.nr, 1),
            SliceIndices(img.nc, CROP_COLS, img.nc, 1))

\* line 124: img_array_raw[22:, 12:]
CropNina(img) ==
    GetItem(img, SliceIndices(img.nr, CROP_ROWS, img.nr, 1),
            SliceIndices(img.nc, CROP_COLS, img.nc, 1))

\* lines 132-133: (img_data/16).astype('int16'), the quotient cut towards 0
ScaleTo12Bit(img_data) ==
    [nr |-> img_data.nr, nc |-> img_data.nc,
     at |-> [i1 \in 1..(img_data.nr) |-> [j1 \in 1..(img_data.nc) |->
         LET x == At(img_data, i1 - 1, j1 - 1)
         IN  Int16(IF x >= 0 THEN x \div 16 ELSE -((-x) \div 16))]]]

\* lines 136-149: the four subimages of image k as written, with POL_ANG
SplitWrite(k, img_data_scaled) ==
    LET nr == img_data_scaled.nr
        nc == img_data_scaled.nc
        orient_000 == GetItem(img_data_scaled, EveryOther(nr, 1), EveryOther(nc, 1))
        orient_045 == GetItem(img_data_scaled, EveryOther(nr, 0), EveryOther(nc, 1))
        orient_090 == GetItem(img_data_scaled, EveryOther(nr, 0), EveryOther(nc, 0))
        orient_135 == GetItem(img_data_scaled, EveryOther(nr, 1), EveryOther(nc, 0))
    IN  <<[image |-> k, POL_ANG |-> 0, data |-> orient_000],
          [image |-> k, POL_ANG |-> 45, data |-> orient_045],
          [image |-> k, POL_ANG |-> 90, data |-> orient_090],
          [image |-> k, POL_ANG |-> 135, data |-> orient_135]>>

\* lines 81-149 from image k on: the files written when the loop ends or
\* sys.exit(0) is called for an image of neither software
RECURSIVE SplitFrom(_, _, _)
SplitFrom(images, k, written) ==
    IF k > Len(images)
    THEN [status |-> "returned", written |-> written]
    ELSE IF images[k].sw = "SharpCap"
    THEN SplitFrom(images, k + 1,
                   written \o SplitWrite(k, ScaleTo12Bit(CropSharpCap(images[k].raw))))
    ELSE IF images[k].sw = "N.I.N.A."
    THEN SplitFrom(images, k + 1,
                   written \o SplitWrite(k, ScaleTo12Bit(CropNina(images[k].raw))))
    ELSE [status |-> "SystemExit", written |-> written]

\* split_poldata: lines 60-64 quit when a subdirectory is missing
SplitPoldata(exists, images) ==
    IF ~exists
    THEN [status |-> "SystemExit", written |-> <<>>]
    ELSE SplitFrom(images, 1, <<>>)

----------------------------------------------------------------------------
(* example_polarsens_read_visualize.py, lines 21-50                        *)

\* The stages of the script, in the order of its lines
AllStages ==
    <<"decode", "split", "reconstruct000", "reconstruct045", "reconstruct090",
      "reconstruct135", "statistics", "stokes", "dolp", "aolp">>

\* How a run ends: the exception or "returned", the line reached, and the
\* stages completed
Ended(how, line, n) == [status |-> how, line |-> line, done |-> SubSeq(AllStages, 1, n)]

\* pia.readFitsToNumpy(ipfile), line 24: the image of the file and its bit
\* depth
ReadFitsToNumpy(img) == [status |-> "returned", line |-> 24, imgArray |-> img, bpp |-> 12]

\* pia.getArrayStat(s000, bpp), line 45: statistics of an array; it ends
\* normally
GetArrayStat(a, bpp) == "returned"

\* Whether some element of row i of a is negative
HasNegative(a, i) == \E j \in 0..(a.nc - 1) : At(a, i, j) < 0

\* A reading that did not give a 2-D image: the exception and its line
NotDecoded(how, line) == [status |-> how, line |-> line, imgArray |-> NoArray, bpp |-> 0]

\* Line 26, imgArray, bpp = pia.readRawToNumpy(ipfile), and what follows.
\* readRawToNumpy returns one 2-D array, and the assignment unpacks it along
\* its first axis: it raises ValueError unless the array has two rows.  With
\* two rows imgArray and bpp are 1-D arrays: line 32 then raises, in
\* np.power for a negative exponent or in int() for an array of more than
\* one element, and otherwise line 37 raises IndexError on the 1-D image.
RawRun(bytes) ==
    LET out == ReadRawToNumpy(bytes)
    IN  IF out.status # "returned" THEN NotDecoded(out.status, 26)
        ELSE IF out.img.nr # 2 THEN NotDecoded("ValueError", 26)
        ELSE IF HasNegative(out.img, 1) THEN NotDecoded("ValueError", 32)
        ELSE IF out.img.nc # 1 THEN NotDecoded("TypeError", 32)
        ELSE NotDecoded("IndexError", 37)

\* Lines 21-32 on the file ipfile = [ext, bytes, img]: a raw file has bytes,
\* a FITS file has an image; any other extension ends the run in line 29.
ReadFile(file) ==
    IF file.ext = ".fits" THEN ReadFitsToNumpy(file.img)
    ELSE IF file.ext = ".raw" THEN RawRun(file.bytes)
    ELSE NotDecoded("SystemExit", 29)

\* The offsets that lines 40-43 pass to do_bilinear for s000, s045, s090,
\* s135
ExampleOffsets == <<(<<1, 1>>), (<<0, 1>>), (<<0, 0>>), (<<1, 0>>)>>

\* Lines 40-43 from the k-th call on, up to the first call that raises
RECURSIVE Reconstructions(_, _)
RECURSIVE AfterCall(_, _, _)
AfterCall(o, sub, k) ==
    IF o.status # "returned" \/ k = 4
    THEN <<o>>
    ELSE <<o>> \o Reconstructions(sub, k + 1)

Reconstructions(sub, k) ==
    AfterCall(DoBilinear(sub[k], ExampleOffsets[k][1], ExampleOffsets[k][2]), sub, k)

\* The end of the run, from its reading, its subimages and its
\* reconstructions; lines 45-50 follow four reconstructions that returned.
ExampleRun(decoded, sub, bil) ==
    IF decoded.status # "returned"
    THEN Ended(decoded.status, decoded.line, IF decoded.line > 26 THEN 1 ELSE 0)
    ELSE IF bil[Len(bil)].status # "returned"
    THEN Ended(bil[Len(bil)].status, 39 + Len(bil), 1 + Len(bil))
    ELSE IF GetArrayStat(sub[1], decoded.bpp) # "returned" THEN Ended("Error", 45, 6)
    ELSE LET st == ComputeStokes(bil[1].trimmedX, bil[2].trimmedX,
                                 bil[3].trimmedX, bil[4].trimmedX)
         IN  IF st.status # "returned" THEN Ended(st.status, 48, 7)
             ELSE Ended("returned", 50, 10)

----------------------------------------------------------------------------
(* example_phx050s_raw_read_visualize.py, lines 20-39                      *)

\* The stages of the script, in the order of its lines
PhxStages ==
    <<"decode", "split", "reconstruct000", "reconstruct045", "reconstruct090",
      "reconstruct135", "stokes", "dolp", "aolp">>

PhxEnded(how, line, n) == [status |-> how, line |-> line, done |-> SubSeq(PhxStages, 1, n)]

\* Line 20, imgArray = pia.readRawToNumpy(ipfile)
PhxRead(bytes) ==
    LET out == ReadRawToNumpy(bytes)
    IN  [status |-> out.status, line |-> 20, imgArray |-> out.img, bpp |-> 0]

\* The offsets that lines 29-32 pass to do_bilinear for s000, s045, s090,
\* s135
PhxOffsets == <<(<<1, 1>>), (<<1, 1>>), (<<1, 1>>), (<<1, 1>>)>>

\* Lines 29-32 from the k-th call on, up to the first call that raises
RECURSIVE PhxReconstructions(_, _)
RECURSIVE PhxAfterCall(_, _, _)
PhxAfterCall(o, sub, k) ==
    IF o.status # "returned" \/ k = 4
    THEN <<o>>
    ELSE <<o>> \o PhxReconstructions(sub, k + 1)

PhxReconstructions(sub, k) ==
    PhxAfterCall(DoBilinear(sub[k], PhxOffsets[k][1], PhxOffsets[k][2]), sub, k)

\* The end of the run, from its reading and its reconstructions; lines
\* 37-39 follow four reconstructions that returned.
PhxRun(decoded, bil) ==
    IF decoded.status # "returned"
    THEN PhxEnded(decoded.status, decoded.line, 0)
    ELSE IF bil[Len(bil)].status # "returned"
    THEN PhxEnded(bil[Len(bil)].status, 28 + Len(bil), 1 + Len(bil))
    ELSE LET st == ComputeStokes(bil[1].trimmedX, bil[2].trimmedX,
                                 bil[3].trimmedX, bil[4].trimmedX)
         IN  IF st.status # "returned" THEN PhxEnded(st.status, 37, 6)
             ELSE PhxEnded("returned", 39, 9)

----------------------------------------------------------------------------
(* The state machine: one call of one function                            *)

Init ==
    /\ call = "none"
    /\ status = "none"
    /\ binary_array = <<>>
    /\ img_array_2d = NoArray
    /\ exit_code = -1
    /\ stdout = <<>>
    /\ subimages = <<>>
    /\ orientX = NoArray
    /\ rowOffset = 0
    /\ colOffset = 0
    /\ orientXfull = NoArray
    /\ fullAssigned = {}
    /\ orientXcmos = NoArray
    /\ populated = {}
    /\ trimmedX = NoArray
    /\ intens = <<>>
    /\ stokes = <<>>
    /\ DOLP = NoArray
    /\ AOLP = NoArray
    /\ snr_in = <<>>
    /\ snr_out = NoArray
    /\ scale_k = 0
    /\ snr_scaled = NoArray
    /\ storage = <<>>
    /\ ipfile = [ext |-> "", bytes |-> <<>>, img |-> NoArray]
    /\ ex_decoded = [status |-> "none", line |-> 0, imgArray |-> NoArray, bpp |-> 0]
    /\ ex_sub = <<>>
    /\ ex_bil = <<>>
    /\ ex_calls = <<>>
    /\ ex_line = 0
    /\ ex_done = <<>>
    /\ lp_img = NoArray
    /\ lp_stokes = <<>>
    /\ lp_dolp = NoArray
    /\ lp_aolp = NoArray
    /\ dev_connected = -1
    /\ dev_created = 0
    /\ dev_slept = 0
    /\ dev_tries = 0
    /\ ls_script = ""
    /\ ls_pc = "none"
    /\ ls_held = 0
    /\ ls_copies = 0
    /\ ls_streaming = FALSE
    /\ ls_device = "none"
    /\ ls_frames = 0
    /\ sp_exists = FALSE
    /\ sp_images = <<>>
    /\ sp_written = <<>>

CallReadRawToNumpy ==
    /\ call = "none"
    /\ call' = "readRawToNumpy"
    /\ UNCHANGED otherVars
    /\ \E len \in 0..(2 * NPIX + MaxExtra), seed \in Byte, step \in 0..MaxStep :
         LET bytes == RampBuffer(len, seed, step)
             out   == ReadRawToNumpy(bytes)
         IN  /\ binary_array' = bytes
             /\ status' = out.status
             /\ exit_code' = out.exit_code
             /\ stdout' = out.stdout
             /\ img_array_2d' = out.img
    /\ UNCHANGED storage
    /\ UNCHANGED <<subimages, orientX, rowOffset, colOffset, orientXfull,
                   fullAssigned, orientXcmos, populated, trimmedX>>
    /\ UNCHANGED polVars
    /\ UNCHANGED snrVars
    /\ UNCHANGED exVars

CallExtractSubimages ==
    /\ call = "none"
    /\ call' = "extractSubimages"
    /\ UNCHANGED otherVars
    /\ \E h \in 1..MaxN, w \in 1..MaxN, seed \in Byte, step \in 0..MaxStep :
         LET img == RampImage(2 * h, 2 * w, seed, step)
         IN  /\ img_array_2d' = img
             /\ subimages' = ExtractSubimages(img)
    /\ storage' = <<ExtractSubimagesStorage(1)>>
    /\ status' = "returned"
    /\ UNCHANGED <<binary_array, exit_code, stdout, orientX, rowOffset,
                   colOffset, orientXfull, fullAssigned, orientXcmos,
                   populated, trimmedX>>
    /\ UNCHANGED polVars
    /\ UNCHANGED snrVars
    /\ UNCHANGED exVars

\* The state after a do_bilinear call that ended as out
AfterDoBilinear(out) ==
    /\ status' = out.status
    /\ orientXfull' = out.orientXfull
    /\ fullAssigned' = out.fullAssigned
    /\ orientXcmos' = out.orientXcmos
    /\ populated' = out.populated
    /\ trimmedX' = out.trimmedX
    /\ storage' = <<DoBilinearStorage(1, out.status # "returned")>>

CallDoBilinear ==
    /\ call = "none"
    /\ call' = "do_bilinear"
    /\ UNCHANGED otherVars
    /\ \E nr \in 2..MaxN, nc \in 2..MaxN, r0 \in {0, 1}, c0 \in {0, 1},
          a \in 0..MaxCoef, b \in 0..MaxCoef, c \in 0..MaxCoef, d \in 0..MaxCoef :
         /\ orientX' = PatternGrid(nr, nc, a, b, c, d)
         /\ rowOffset' = r0
         /\ colOffset' = c0
         /\ AfterDoBilinear(DoBilinear(orientX', r0, c0))
    /\ UNCHANGED <<binary_array, img_array_2d, exit_code, stdout, subimages>>
    /\ UNCHANGED polVars
    /\ UNCHANGED snrVars
    /\ UNCHANGED exVars

\* The three calls of the examples, in their order: computeStokes, then
\* computeDOLP and computeAOLP on its result.
CallPolarimetry ==
    /\ call = "none"
    /\ call' = "polarimetry"
    /\ UNCHANGED otherVars
    /\ \E nr \in 1..MaxPol, nc \in 1..MaxPol, kind \in {"same", "row", "taller"},
          v000 \in 0..MaxLevel, v045 \in 0..MaxLevel,
          v090 \in 0..MaxLevel, v135 \in 0..MaxLevel, g \in 0..MaxCoef :
         LET shape000 == OddShape(kind, nr, nc)
             o000 == IntensityGrid(shape000[1], shape000[2], v000, g)
             o045 == IntensityGrid(nr, nc, v045, 0)
             o090 == IntensityGrid(nr, nc, v090, 0)
             o135 == IntensityGrid(nr, nc, v135, 0)
             out  == ComputeStokes(o000, o045, o090, o135)
         IN  /\ intens' = <<o000, o045, o090, o135>>
             /\ status' = out.status
             /\ IF out.status = "returned"
                THEN /\ stokes' = <<out.S0, out.S1, out.S2>>
                     /\ DOLP' = ComputeDOLP(out.S0, out.S1, out.S2)
                     /\ AOLP' = ComputeAOLP(out.S1, out.S2)
                     /\ storage' = <<ComputeStokesStorage(1),
                                     ComputeDOLPStorage(8, 9, 10, 11),
                                     ComputeAOLPStorage(9, 10, 17)>>
                ELSE /\ stokes' = <<>>
                     /\ DOLP' = NoArray
                     /\ AOLP' = NoArray
                     /\ storage' = <<>>
    /\ UNCHANGED <<binary_array, img_array_2d, exit_code, stdout, subimages,
                   orientX, rowOffset, colOffset, orientXfull, fullAssigned,
                   orientXcmos, populated, trimmedX>>
    /\ UNCHANGED snrVars
    /\ UNCHANGED exVars

\* Two runs of snr-dolp.py: on four images, and on the same images k times
\* brighter.
CallSnrDolp ==
    /\ call = "none"
    /\ call' = "snr_dolp"
    /\ UNCHANGED otherVars
    /\ \E v000 \in 0..MaxHalves, v045 \in 0..MaxHalves,
          v090 \in 0..MaxHalves, v135 \in 0..MaxHalves,
          g \in 0..MaxCoef, k \in 2..MaxK :
         LET i000 == HalfStepGrid(1, 2, v000, g)
             i045 == HalfStepGrid(1, 2, v045, 0)
             i090 == HalfStepGrid(1, 2, v090, 0)
             i135 == HalfStepGrid(1, 2, v135, 0)
         IN  /\ snr_in' = <<i000, i045, i090, i135>>
             /\ snr_out' = SnrDolp(i000, i045, i090, i135)
             /\ scale_k' = k
             /\ snr_scaled' = SnrDolp(Scaled(k, i000), Scaled(k, i045),
                                      Scaled(k, i090), Scaled(k, i135))
    /\ status' = "returned"
    /\ UNCHANGED <<binary_array, img_array_2d, exit_code, stdout, subimages,
                   orientX, rowOffset, colOffset, orientXfull, fullAssigned,
                   orientXcmos, populated, trimmedX, storage>>
    /\ UNCHANGED polVars
    /\ UNCHANGED exVars

\* One run of example_polarsens_read_visualize.py on a raw file, on a FITS
\* file or on a file of another kind.
CallExample ==
    /\ call = "none"
    /\ call' = "example"
    /\ UNCHANGED otherVars
    /\ \E ext \in {".raw", ".fits", ".txt"}, len \in 0..(2 * NPIX + MaxExtra),
          h \in 2..MaxN, w \in 2..MaxN, seed \in {0, 255}, step \in 0..MaxStep :
         LET file == [ext |-> ext,
                      bytes |-> IF ext = ".raw" THEN RampBuffer(len, seed, step) ELSE <<>>,
                      img |-> IF ext = ".fits"
                              THEN RampImage(2 * h, 2 * w, seed, step)
                              ELSE NoArray]
         IN  ipfile' = file
    /\ ex_decoded' = ReadFile(ipfile')
    /\ ex_sub' = IF ex_decoded'.status = "returned"
                 THEN ExtractSubimages(ex_decoded'.imgArray)
                 ELSE <<>>
    /\ ex_bil' = IF ex_decoded'.status = "returned"
                 THEN Reconstructions(ex_sub', 1)
                 ELSE <<>>
    /\ ex_calls' = SubSeq(ExampleOffsets, 1, Len(ex_bil'))
    /\ LET out == ExampleRun(ex_decoded', ex_sub', ex_bil')
       IN  /\ status' = out.status
           /\ ex_line' = out.line
           /\ ex_done' = out.done
    /\ UNCHANGED <<binary_array, img_array_2d, exit_code, stdout, subimages,
                   orientX, rowOffset, colOffset, orientXfull, fullAssigned,
                   orientXcmos, populated, trimmedX, storage>>
    /\ UNCHANGED polVars
    /\ UNCHANGED snrVars

\* One run of example_phx050s_raw_read_visualize.py on a raw file.
CallExamplePhx ==
    /\ call = "none"
    /\ call' = "example_phx"
    /\ UNCHANGED otherVars
    /\ \E len \in 0..(2 * NPIX + MaxExtra), seed \in {0, 255}, step \in 0..MaxStep :
         ipfile' = [ext |-> ".raw", bytes |-> RampBuffer(len, seed, step), img |-> NoArray]
    /\ ex_decoded' = PhxRead(ipfile'.bytes)
    /\ ex_sub' = IF ex_decoded'.status = "returned"
                 THEN ExtractSubimages(ex_decoded'.imgArray)
                 ELSE <<>>
    /\ ex_bil' = IF ex_decoded'.status = "returned"
                 THEN PhxReconstructions(ex_sub', 1)
                 ELSE <<>>
    /\ ex_calls' = SubSeq(PhxOffsets, 1, Len(ex_bil'))
    /\ LET out == PhxRun(ex_decoded', ex_bil')
       IN  /\ status' = out.status
           /\ ex_line' = out.line
           /\ ex_done' = out.done
    /\ UNCHANGED <<binary_array, img_array_2d, exit_code, stdout, subimages,
                   orientX, rowOffset, colOffset, orientXfull, fullAssigned,
                   orientXcmos, populated, trimmedX, storage>>
    /\ UNCHANGED polVars
    /\ UNCHANGED snrVars

\* One pass of the loop of livestream_pol.py on the frame of a buffer:
\* lines 203-206.
CallLivePolarimetry ==
    /\ call = "none"
    /\ call' = "livestream_pol_frame"
    /\ \E h \in 1..MaxPol, w \in 1..MaxPol, g \in 0..MaxCoef,
          lev \in [1..4 -> 0..MaxPixel] :
         lp_img' = LiveFrame(h, w, lev, g)
    /\ lp_stokes' = GetHalfResStokesFromFullResImage(lp_img')
    /\ lp_dolp' = GetDolpFromStokes(lp_stokes'[1], lp_stokes'[2], lp_stokes'[3])
    /\ lp_aolp' = GetAolpFromStokes(lp_stokes'[1], lp_stokes'[2], lp_stokes'[3])
    /\ status' = "returned"
    /\ UNCHANGED <<piaVars, snrVars, exVars, devVars, lsVars, splitVars>>

\* One call of update_create_devices (create_devices_with_tries in the two
\* live-stream scripts) while a device gets connected at some second or
\* never.
CallCreateDevices ==
    /\ call = "none"
    /\ call' = "update_create_devices"
    /\ \E t \in -1..MaxConnect : dev_connected' = t
    /\ LET out == WhileTries(0, 0, 0, dev_connected')
       IN  /\ status' = out.status
           /\ dev_created' = out.created
           /\ dev_slept' = out.slept
           /\ dev_tries' = out.tries
    /\ UNCHANGED <<piaVars, snrVars, exVars, liveVars, lsVars, splitVars>>

\* One call of split_poldata on a directory of up to MaxImages images
CallSplitPoldata ==
    /\ call = "none"
    /\ call' = "split_poldata"
    /\ \E exists \in BOOLEAN, n \in 0..MaxImages, h \in 1..MaxPol, w \in 1..MaxPol,
          fill \in 0..MaxCoef :
         \E sws \in [1..n -> {"SharpCap", "N.I.N.A.", "other"}] :
            /\ sp_exists' = exists
            /\ sp_images' = [k \in 1..n |-> [raw |-> RawFits(h, w, fill + k), sw |-> sws[k]]]
    /\ LET out == SplitPoldata(sp_exists', sp_images')
       IN  /\ status' = out.status
           /\ sp_written' = out.written
    /\ UNCHANGED <<piaVars, snrVars, exVars, liveVars, devVars, lsVars>>

----------------------------------------------------------------------------
(* The live-stream loops, statement by statement: livestream_phx.py lines *)
(* 228-284 and livestream_pol.py lines 185-218                            *)

\* What no statement of the loops changes
NotOfLoop == <<call, piaVars, snrVars, exVars, liveVars, devVars, splitVars,
               ls_script>>

\* The statements of the loop body
LoopBody == {"get_buffer", "copy", "requeue", "show", "destroy", "waitKey"}

\* with device.start_stream(): the loop is entered
LsStartStream ==
    /\ call = "none"
    /\ call' = "livestream"
    /\ \E script \in {"phx", "pol"} : ls_script' = script
    /\ status' = "running"
    /\ ls_pc' = "get_buffer"
    /\ ls_streaming' = TRUE
    /\ ls_device' = "created"
    /\ UNCHANGED <<piaVars, snrVars, exVars, liveVars, devVars, splitVars,
                   ls_held, ls_copies, ls_frames>>

\* buffer = device.get_buffer()
LsGetBuffer ==
    /\ ls_pc = "get_buffer"
    /\ ls_frames < MaxFrames
    /\ ls_held' = ls_held + 1
    /\ ls_pc' = "copy"
    /\ UNCHANGED <<NotOfLoop, status, ls_copies, ls_streaming, ls_device, ls_frames>>

\* item = BufferFactory.copy(buffer)
LsCopy ==
    /\ ls_pc = "copy"
    /\ ls_copies' = ls_copies + 1
    /\ ls_pc' = "requeue"
    /\ UNCHANGED <<NotOfLoop, status, ls_held, ls_streaming, ls_device, ls_frames>>

\* device.requeue_buffer(buffer)
LsRequeueBuffer ==
    /\ ls_pc = "requeue"
    /\ ls_held' = ls_held - 1
    /\ ls_pc' = "show"
    /\ UNCHANGED <<NotOfLoop, status, ls_copies, ls_streaming, ls_device, ls_frames>>

\* The statements between the requeue and the destroy: the array of the
\* copy is built, processed and displayed
LsShow ==
    /\ ls_pc = "show"
    /\ ls_pc' = "destroy"
    /\ UNCHANGED <<NotOfLoop, status, ls_held, ls_copies, ls_streaming, ls_device,
                   ls_frames>>

\* BufferFactory.destroy(item); in livestream_pol.py the pass ends here
LsDestroy ==
    /\ ls_pc = "destroy"
    /\ ls_copies' = ls_copies - 1
    /\ ls_pc' = IF ls_script = "phx" THEN "waitKey" ELSE "get_buffer"
    /\ ls_frames' = IF ls_script = "phx" THEN ls_frames ELSE ls_frames + 1
    /\ UNCHANGED <<NotOfLoop, status, ls_held, ls_streaming, ls_device>>

\* livestream_phx.py lines 277-279: key = cv2.waitKey(1); break on ESC
LsWaitKey ==
    /\ ls_pc = "waitKey"
    /\ \E key \in {-1, 27} :
         ls_pc' = IF key = 27 THEN "stop_stream" ELSE "get_buffer"
    /\ ls_frames' = ls_frames + 1
    /\ UNCHANGED <<NotOfLoop, status, ls_held, ls_copies, ls_streaming, ls_device>>

\* livestream_pol.py line 215: CTRL-c before any statement of the loop
\* body; the handler follows
LsKeyboardInterrupt ==
    /\ ls_script = "pol"
    /\ ls_pc \in LoopBody
    /\ ls_pc' = "stop_stream"
    /\ UNCHANGED <<NotOfLoop, status, ls_held, ls_copies, ls_streaming, ls_device,
                   ls_frames>>

\* device.stop_stream()
LsStopStream ==
    /\ ls_pc = "stop_stream"
    /\ ls_streaming' = FALSE
    /\ ls_pc' = "destroy_device"
    /\ UNCHANGED <<NotOfLoop, status, ls_held, ls_copies, ls_device, ls_frames>>

\* system.destroy_device()
LsDestroyDevice ==
    /\ ls_pc = "destroy_device"
    /\ ls_device' = "destroyed"
    /\ ls_pc' = "done"
    /\ status' = "returned"
    /\ UNCHANGED <<NotOfLoop, ls_held, ls_copies, ls_streaming, ls_frames>>

Next ==
    \/ CallReadRawToNumpy
    \/ CallExtractSubimages
    \/ CallDoBilinear
    \/ CallPolarimetry
    \/ CallSnrDolp
    \/ CallExample
    \/ CallExamplePhx
    \/ CallLivePolarimetry
    \/ CallCreateDevices
    \/ CallSplitPoldata
    \/ LsStartStream
    \/ LsGetBuffer
    \/ LsCopy
    \/ LsRequeueBuffer
    \/ LsShow
    \/ LsDestroy
    \/ LsWaitKey
    \/ LsKeyboardInterrupt
    \/ LsStopStream
    \/ LsDestroyDevice

Spec == Init /\ [][Next]_vars

----------------------------------------------------------------------------
(* Properties of do_bilinear                                               *)

\* Whether the rows of a agree with its shape
WellShaped(a) ==
    /\ Len(a.at) = a.nr
    /\ \A i \in 1..a.nr : Len(a.at[i]) = a.nc

BilinearCalled == call = "do_bilinear"

\* C1: do_bilinear on an (nr, nc) grid returns an array of shape
\* (2nr-2, 2nc-2), for every nr, nc >= 2 and each of the four offsets.
C1_ShapeLawAllOffsets ==
    BilinearCalled =>
        /\ status = "returned"
        /\ trimmedX.nr = 2 * orientX.nr - 2
        /\ trimmedX.nc = 2 * orientX.nc - 2

\* Whether canvas cell (r, c) survives the one-pixel trim
Survives(r, c) ==
    /\ 1 <= r /\ r <= 2 * orientX.nr - 2
    /\ 1 <= c /\ c <= 2 * orientX.nc - 2

\* C2: for each of the four offsets, every original sample grid[i][j] whose
\* canvas cell (2i+rowOffset, 2j+colOffset) survives the trim is found
\* unchanged in the output at [2i+rowOffset-1, 2j+colOffset-1].
C2_SamplesExactAllOffsets ==
    BilinearCalled =>
        /\ status = "returned"
        /\ \A p \in Indices(orientX.nr, orientX.nc) :
             LET r == 2 * p[1] + rowOffset
                 c == 2 * p[2] + colOffset
             IN  Survives(r, c) => At(trimmedX, r - 1, c - 1) = At(orientX, p[1], p[2])

\* C3: for each of the four offsets the whole combined array is placed in
\* the canvas at rows rowOffset..rowOffset+2nr-2 and columns
\* colOffset..colOffset+2nc-2, and the placement succeeds.
C3_PlacementAllOffsets ==
    BilinearCalled =>
        /\ status = "returned"
        /\ populated = {<<p[1] + rowOffset, p[2] + colOffset>> :
                            p \in Indices(orientXfull.nr, orientXfull.nc)}
        /\ \A p \in Indices(orientXfull.nr, orientXfull.nc) :
             At(orientXcmos, p[1] + rowOffset, p[2] + colOffset) =
                 At(orientXfull, p[1], p[2])

\* C4: the combined array has shape (2nr-1, 2nc-1); it holds grid[i][j] at
\* (2i, 2j), (grid[i][j]+grid[i+1][j])/2 at (2i+1, 2j),
\* (grid[i][j]+grid[i][j+1])/2 at (2i, 2j+1) and (vAv[i][j]+vAv[i][j+1])/2
\* at (2i+1, 2j+1), vAv being the values at the (odd, even) cells; every
\* cell of it was assigned.
C4_CombinedArray ==
    BilinearCalled =>
        LET g(i, j) == At(orientX, i, j)
            f(i, j) == At(orientXfull, i, j)
            nr == orientX.nr
            nc == orientX.nc
        IN  /\ orientXfull.nr = 2 * nr - 1
            /\ orientXfull.nc = 2 * nc - 1
            /\ WellShaped(orientXfull)
            /\ fullAssigned = Indices(2 * nr - 1, 2 * nc - 1)
            /\ \A i \in 0..(nr - 1), j \in 0..(nc - 1) :
                 f(2 * i, 2 * j) = g(i, j)
            /\ \A i \in 0..(nr - 2), j \in 0..(nc - 1) :
                 2 * f(2 * i + 1, 2 * j) = g(i, j) + g(i + 1, j)
            /\ \A i \in 0..(nr - 1), j \in 0..(nc - 2) :
                 2 * f(2 * i, 2 * j + 1) = g(i, j) + g(i, j + 1)
            /\ \A i \in 0..(nr - 2), j \in 0..(nc - 2) :
                 2 * f(2 * i + 1, 2 * j + 1) =
                     f(2 * i + 1, 2 * j) + f(2 * i + 1, 2 * j + 2)

\* A call on a 3 x 2 grid whose vertical midpoints differ along a row, so
\* that the centre value differs from both.
C4_Witness ==
    /\ BilinearCalled
    /\ orientX.nr = 3 /\ orientX.nc = 2
    /\ At(orientXfull, 1, 0) # At(orientXfull, 1, 2)
    /\ At(orientXfull, 3, 1) # At(orientXfull, 3, 0)

\* With equal offsets, (0,0) or (1,1), the call returns and what C1, C2, C3
\* and C5 state of the four offsets holds: the divergence is confined to
\* the offsets (0,1) and (1,0).
EqualOffsetsReturn ==
    (BilinearCalled /\ rowOffset = colOffset) =>
        /\ status = "returned"
        /\ trimmedX.nr = 2 * orientX.nr - 2
        /\ trimmedX.nc = 2 * orientX.nc - 2
        /\ WellShaped(trimmedX)
        /\ populated = {<<p[1] + rowOffset, p[2] + colOffset>> :
                            p \in Indices(orientXfull.nr, orientXfull.nc)}
        /\ \A p \in Indices(trimmedX.nr, trimmedX.nc) :
             /\ <<p[1] + 1, p[2] + 1>> \in populated
             /\ At(trimmedX, p[1], p[2]) =
                    At(orientXfull, p[1] + 1 - rowOffset, p[2] + 1 - colOffset)

\* With unequal offsets, (0,1) or (1,0), line 163 raises ValueError.
UnequalOffsetsRaise ==
    (BilinearCalled /\ rowOffset # colOffset) =>
        /\ status = "ValueError"
        /\ trimmedX = NoArray
        /\ populated = {}

\* C5: for each of the four offsets do_bilinear returns, and no cell of its
\* output is a canvas cell that was never written.
C5_NoUnwrittenCellAllOffsets ==
    BilinearCalled =>
        /\ status = "returned"
        /\ \A p \in Indices(trimmedX.nr, trimmedX.nc) :
             <<p[1] + 1, p[2] + 1>> \in populated

----------------------------------------------------------------------------
(* Properties of extractSubimages                                          *)

\* The parity (row, column) of the k-th returned grid: 0, 45, 90, 135 degrees
Parity(k) == <<<<1, 1>>, <<0, 1>>, <<0, 0>>, <<1, 0>>>>[k]

\* C6: on an H x W frame (H, W even) extractSubimages returns, in the order
\* (0, 45, 90, 135), four grids of shape (H/2, W/2) with
\* grid[i][j] = frame[2i+rowParity][2j+colParity], the parities being (1,1)
\* for 0, (0,1) for 45, (0,0) for 90 and (1,0) for 135 degrees.
C6_SplitParity ==
    call = "extractSubimages" =>
        /\ Len(subimages) = 4
        /\ \A k \in 1..4 :
             /\ 2 * subimages[k].nr = img_array_2d.nr
             /\ 2 * subimages[k].nc = img_array_2d.nc
             /\ WellShaped(subimages[k])
             /\ \A p \in Indices(subimages[k].nr, subimages[k].nc) :
                  At(subimages[k], p[1], p[2]) =
                      FloatScale * At(img_array_2d, 2 * p[1] + Parity(k)[1],
                                                    2 * p[2] + Parity(k)[2])

\* A 4 x 6 frame whose four phases hold four different samples
C6_Witness ==
    /\ call = "extractSubimages"
    /\ img_array_2d.nr = 4 /\ img_array_2d.nc = 6
    /\ Cardinality({At(subimages[k], 1, 2) : k \in 1..4}) = 4

----------------------------------------------------------------------------
(* Properties of readRawToNumpy                                            *)

ReadCalled == call = "readRawToNumpy"

\* C7: for a buffer of exactly H*W bytes the result is an H x W frame with
\* frame[r][c] = bytes[r*W + c].
C7_Decode8Bit ==
    (ReadCalled /\ Len(binary_array) = NPIX) =>
        /\ status = "returned"
        /\ img_array_2d.nr = IMG_HEIGHT
        /\ img_array_2d.nc = IMG_WIDTH
        /\ WellShaped(img_array_2d)
        /\ \A r \in 0..(IMG_HEIGHT - 1), c \in 0..(IMG_WIDTH - 1) :
             At(img_array_2d, r, c) = binary_array[r * IMG_WIDTH + c + 1]

\* An 8-bit buffer of distinct bytes, decoded
C7_Witness ==
    /\ ReadCalled
    /\ Len(binary_array) = NPIX
    /\ status = "returned"
    /\ Cardinality({binary_array[k] : k \in 1..NPIX}) = NPIX
    /\ At(img_array_2d, IMG_HEIGHT - 1, 0) = binary_array[(IMG_HEIGHT - 1) * IMG_WIDTH + 1]

\* C8: for a buffer of exactly 2*H*W bytes [evn0, odd0, evn1, odd1, ...]
\* the decoded value at position k is 256*odd_k + evn_k, whatever the bytes.
C8_Decode12BitAllBytes ==
    (ReadCalled /\ Len(binary_array) = 2 * NPIX) =>
        /\ status = "returned"
        /\ \A k \in 0..(NPIX - 1) :
             At(img_array_2d, k \div IMG_WIDTH, k % IMG_WIDTH) =
                 256 * binary_array[2 * k + 2] + binary_array[2 * k + 1]

\* C9: every sample of a returned frame lies in [0, 255] for an H*W-byte
\* buffer and in [0, 4095] for a 2*H*W-byte buffer.
C9_SampleRange ==
    (ReadCalled /\ status = "returned") =>
        \A p \in Indices(img_array_2d.nr, img_array_2d.nc) :
            /\ 0 <= At(img_array_2d, p[1], p[2])
            /\ At(img_array_2d, p[1], p[2]) <= (IF Len(binary_array) = NPIX THEN 255 ELSE 4095)

\* C10: when the buffer length is neither H*W nor 2*H*W, readRawToNumpy
\* returns no frame, the run ends with a non-zero exit status, and a printed
\* line carries the buffer size.
C10_FormatError ==
    (ReadCalled /\ Len(binary_array) \notin {NPIX, 2 * NPIX}) =>
        /\ img_array_2d = NoArray
        /\ status = "SystemExit"
        /\ exit_code > 0
        /\ \E n \in 1..Len(stdout) :
             \E v \in 1..Len(stdout[n].values) :
                stdout[n].values[v] = Len(binary_array)

----------------------------------------------------------------------------
(* Properties of computeStokes, computeDOLP and computeAOLP                *)

PolCalled == call = "polarimetry"

SameShape(a, b) == a.nr = b.nr /\ a.nc = b.nc

EqualShapes == \A k \in 2..4 : SameShape(intens[k], intens[1])

\* The pixels of the arguments when their shapes are equal
Pixels == Indices(intens[1].nr, intens[1].nc)

I000(p) == At(intens[1], p[1], p[2])

I045(p) == At(intens[2], p[1], p[2])

I090(p) == At(intens[3], p[1], p[2])

I135(p) == At(intens[4], p[1], p[2])

S0(p) == At(stokes[1], p[1], p[2])

S1(p) == At(stokes[2], p[1], p[2])

S2(p) == At(stokes[3], p[1], p[2])

Dolp(p) == At(DOLP, p[1], p[2])

Aolp(p) == At(AOLP, p[1], p[2])

\* C11: on four arrays of one shape computeStokes returns three arrays of
\* that shape with, at every pixel, S0 = (I000 + I045 + I090 + I135)/2,
\* S1 = I000 - I090 and S2 = I045 - I135.
C11_StokesElementwise ==
    (PolCalled /\ EqualShapes) =>
        /\ status = "returned"
        /\ Len(stokes) = 3
        /\ \A k \in 1..3 : SameShape(stokes[k], intens[1]) /\ WellShaped(stokes[k])
        /\ \A p \in Pixels :
              /\ 2 * S0(p) = I000(p) + I045(p) + I090(p) + I135(p)
              /\ S1(p) = I000(p) - I090(p)
              /\ S2(p) = I045(p) - I135(p)

C11_Witness ==
    /\ PolCalled /\ EqualShapes /\ status = "returned"
    /\ intens[1].nr = 2 /\ intens[1].nc = 2
    /\ S1(<<0, 0>>) # S1(<<1, 1>>)
    /\ S1(<<0, 0>>) # S2(<<0, 0>>)
    /\ S2(<<0, 0>>) # 0
    /\ I045(<<0, 0>>) # I090(<<0, 0>>)

\* C12: computeDOLP returns 100 * sqrt(S1^2 + S2^2) / S0 and does not clamp
\* it to [0, 100]: intensities 100, 0, 0, 0 give S0 = 50, S1 = 100, S2 = 0
\* and a DoLP of 200.
C12_DolpUnclamped ==
    (PolCalled /\ EqualShapes) =>
        \A p \in Pixels :
            /\ S0(p) # 0 =>
                  LET q == (S1(p) * S1(p)) + (S2(p) * S2(p))
                      d == S0(p) * S0(p)
                  IN  /\ Dolp(p).kind = "finite"
                      /\ Dolp(p).coef = 100
                      /\ Dolp(p).sign = Sgn(S0(p)) * Sgn(q)
                      /\ Dolp(p).num = q \div Gcd(q, d)
                      /\ Dolp(p).den = d \div Gcd(q, d)
            /\ (/\ I000(p) = 100 * FloatScale
                /\ I045(p) = 0 /\ I090(p) = 0 /\ I135(p) = 0) =>
                  /\ S0(p) = 50 * FloatScale
                  /\ S1(p) = 100 * FloatScale
                  /\ S2(p) = 0
                  /\ Dolp(p).kind = "finite"
                  /\ Dolp(p).sign = 1
                  /\ Dolp(p).coef = 100 /\ Dolp(p).num = 2 * 2 /\ Dolp(p).den = 1

C12_Witness ==
    /\ PolCalled /\ EqualShapes /\ status = "returned"
    /\ I000(<<0, 0>>) = 100 * FloatScale
    /\ I045(<<0, 0>>) = 0 /\ I090(<<0, 0>>) = 0 /\ I135(<<0, 0>>) = 0
    /\ Dolp(<<0, 0>>).num > Dolp(<<0, 0>>).den

\* C13: where S0 = 0 computeDOLP does not fail: the pixel gets infinity when
\* S1^2 + S2^2 > 0 and NaN when S1 = S2 = 0, and every other pixel gets its
\* finite value.
C13_ZeroS0Sentinel ==
    (PolCalled /\ EqualShapes) =>
        /\ status = "returned"
        /\ SameShape(DOLP, intens[1]) /\ WellShaped(DOLP)
        /\ \A p \in Pixels :
              LET q == (S1(p) * S1(p)) + (S2(p) * S2(p))
              IN  /\ (S0(p) = 0 /\ q > 0) => (Dolp(p).kind = "inf" /\ Dolp(p).sign = 1)
                  /\ (S0(p) = 0 /\ q = 0) => Dolp(p).kind = "nan"
                  /\ S0(p) # 0 =>
                        /\ Dolp(p).kind = "finite"
                        /\ Dolp(p).coef = 100
                        /\ Dolp(p).num = q \div Gcd(q, S0(p) * S0(p))
                        /\ Dolp(p).den = (S0(p) * S0(p)) \div Gcd(q, S0(p) * S0(p))

C13_Witness ==
    /\ PolCalled /\ EqualShapes /\ status = "returned"
    /\ \E p \in Pixels, r \in Pixels :
          /\ S0(p) = 0 /\ Dolp(p).kind = "nan"
          /\ S0(r) # 0 /\ Dolp(r).kind = "finite" /\ Dolp(r).num > 0

\* C14: for every S1, S2 obtained from intensities the AoLP lies in
\* (-90, 90] degrees: 90 is reached, where S2 = 0 and S1 < 0, and -90 never.
C14_AolpRange ==
    (PolCalled /\ EqualShapes) =>
        /\ SameShape(AOLP, intens[1]) /\ WellShaped(AOLP)
        /\ \A p \in Pixels :
              /\ Aolp(p).lo <= Aolp(p).hi
              /\ Aolp(p).hi <= 2 * 90
              /\ Aolp(p).lo >= -(2 * 90)
              /\ Aolp(p).lo = Aolp(p).hi => Aolp(p).lo > -(2 * 90)
              /\ (Aolp(p).lo = 2 * 90) <=> (S2(p) = 0 /\ S1(p) < 0)

C14_Witness ==
    /\ PolCalled /\ EqualShapes /\ status = "returned"
    /\ \E p \in Pixels : S2(p) = 0 /\ S1(p) < 0 /\ Aolp(p) = Exactly(2 * 90)

\* C17: computeStokes on arrays that are not all of one shape raises a
\* shape error and returns nothing; it never broadcasts.
C17_MismatchRaises ==
    (PolCalled /\ ~EqualShapes) => (status = "ValueError" /\ stokes = <<>>)

\* Four equal constant arrays of the value v
ConstantArrays(v) ==
    \A k \in 1..4 : \A p \in Pixels : At(intens[k], p[1], p[2]) = v

\* C20, as stated: for four equal constant arrays of any value v, S0 = 2v,
\* S1 = 0, S2 = 0, DoLP = 0 and AoLP = 0 at every pixel.
C20_ConstantAnyValue ==
    (PolCalled /\ EqualShapes) =>
        \A n \in 0..MaxLevel :
            ConstantArrays(Level(n)) =>
                \A p \in Pixels :
                    /\ S0(p) = 2 * Level(n) /\ S1(p) = 0 /\ S2(p) = 0
                    /\ Dolp(p).kind = "finite" /\ Dolp(p).num = 0
                    /\ Aolp(p) = Exactly(0)

\* C20, amended: for four equal constant arrays of any value v, S0 = 2v,
\* S1 = 0, S2 = 0 and AoLP = 0 at every pixel; DoLP is 0 when v is not 0,
\* and NaN when v = 0.
C20_ConstantNonZero ==
    (PolCalled /\ EqualShapes) =>
        \A n \in 0..MaxLevel :
            ConstantArrays(Level(n)) =>
                \A p \in Pixels :
                    /\ S0(p) = 2 * Level(n) /\ S1(p) = 0 /\ S2(p) = 0
                    /\ Level(n) # 0 => (Dolp(p).kind = "finite" /\ Dolp(p).num = 0)
                    /\ Level(n) = 0 => Dolp(p).kind = "nan"
                    /\ Aolp(p) = Exactly(0)

C20_Witness ==
    /\ PolCalled /\ EqualShapes /\ status = "returned"
    /\ intens[1].nr = 2 /\ intens[1].nc = 2
    /\ ConstantArrays(100 * FloatScale)
    /\ \A p \in Pixels : Dolp(p).kind = "finite" /\ Dolp(p).num = 0

----------------------------------------------------------------------------
(* Properties of snr-dolp.py                                               *)

SnrCalled == call = "snr_dolp"

SnrPixels == Indices(snr_in[1].nr, snr_in[1].nc)

\* The sample of image k at the pixel p, as a fraction
Sample(k, p) == Frac(At(snr_in[k], p[1], p[2]), FloatScale)

Out(p) == At(snr_out, p[1], p[2])

OutScaled(p) == At(snr_scaled, p[1], p[2])

\* h = S1^2 + S2^2 at the pixel p
HOf(p) == FracAdd(FracMul(Out(p).S1, Out(p).S1), FracMul(Out(p).S2, Out(p).S2))

\* The relative variance with h, not h^2, raised to 1
RelVarClampingH(p) ==
    LET dS1sq == FracAdd(Sample(1, p), Sample(3, p))
        dS2sq == FracAdd(Sample(2, p), Sample(4, p))
        S1sq  == FracMul(Out(p).S1, Out(p).S1)
        S2sq  == FracMul(Out(p).S2, Out(p).S2)
        h     == IF FracLess(HOf(p), One) THEN One ELSE HOf(p)
    IN  FracAdd(FracDiv(FracAdd(FracMul(S1sq, dS1sq), FracMul(S2sq, dS2sq)), FracMul(h, h)),
                FracDiv(Frac(1, 2), Out(p).S0))

\* C15: with dS1^2 = I000 + I090, dS2^2 = I045 + I135 and h = S1^2 + S2^2
\* raised to at least 1, relVar = (S1^2 dS1^2 + S2^2 dS2^2)/h^2 + 0.5/S0 and
\* SNR = 1/sqrt(relVar); the script, which raises h^2 and not h to at least
\* 1, computes this relVar for every input.
C15_ClampEquivalence ==
    SnrCalled =>
        \A p \in SnrPixels :
            /\ Out(p).del_dolp_over_dolp_sq = RelVarClampingH(p)
            /\ Out(p).snr_dolp_sq = FracDiv(One, RelVarClampingH(p))

C15_Witness ==
    /\ SnrCalled
    /\ \E p \in SnrPixels :
          /\ HOf(p).num > 0 /\ FracLess(HOf(p), One)
          /\ Out(p).S0.num > 0
          /\ Out(p).h2 = One
    /\ \E p \in SnrPixels : FracLess(One, HOf(p)) /\ Out(p).h2 # One

\* Whether the brighter run has the greater SNR at the pixel p
SnrRises(p) ==
    /\ Out(p).snr_dolp_sq.kind = "finite"
    /\ OutScaled(p).snr_dolp_sq.kind = "finite"
    /\ FracLess(Out(p).snr_dolp_sq, OutScaled(p).snr_dolp_sq)

\* C16, as stated: for every quadruple of non-negative intensities with
\* S0 > 0, the SNR of the images k > 1 times brighter is strictly greater,
\* also where h is raised to 1.
C16_SnrRisesAlways ==
    SnrCalled => \A p \in SnrPixels : Out(p).S0.num > 0 => SnrRises(p)

\* C16, amended: for every quadruple of non-negative intensities with
\* S0 > 0 and h = S1^2 + S2^2 either 0 or at least 1, the SNR of the images
\* k > 1 times brighter is strictly greater.
C16_SnrRisesUnclamped ==
    SnrCalled =>
        \A p \in SnrPixels :
            (Out(p).S0.num > 0 /\ (HOf(p).num = 0 \/ ~FracLess(HOf(p), One))) => SnrRises(p)

C16_Witness ==
    /\ SnrCalled
    /\ \E p \in SnrPixels : Out(p).S0.num > 0 /\ HOf(p).num = 0 /\ SnrRises(p)
    /\ \E p \in SnrPixels : HOf(p).num > 0 /\ ~FracLess(HOf(p), One) /\ SnrRises(p)

----------------------------------------------------------------------------
(* Inputs and storage                                                      *)

----------------------------------------------------------------------------
(* The example script                                                      *)

ExampleCalled == call = "example"

\* C19: on a raw file of H*W or 2*H*W bytes the script runs every stage to
\* its end without an error: decode, split, the four reconstructions with
\* the offsets (1,1), (0,1), (0,0), (1,0), statistics, Stokes, DoLP, AoLP.
C19_RawPipelineCompletes ==
    (/\ ExampleCalled
     /\ ipfile.ext = ".raw"
     /\ Len(ipfile.bytes) \in {NPIX, 2 * NPIX}) =>
        (status = "returned" /\ ex_done = AllStages)

\* No run of the script on any of these files gets past line 41
ExampleNeverCompletes ==
    ExampleCalled => (status # "returned" /\ ex_line <= 41)

\* On a FITS image the run ends in line 41: do_bilinear(s045, 0, 1) raises
FitsRunEndsInLine41 ==
    (ExampleCalled /\ ipfile.ext = ".fits") =>
        (status = "ValueError" /\ ex_line = 41 /\ Len(ex_done) = 3)

----------------------------------------------------------------------------
(* The reconstructions of one frame in the two example scripts             *)

\* A run of either example script that decoded a frame and split it
FrameSplit == call \in {"example", "example_phx"} /\ ex_decoded.status = "returned"

Frame == ex_decoded.imgArray

\* The do_bilinear calls of the run that returned
Returned == {k \in 1..Len(ex_bil) : ex_bil[k].status = "returned"}

\* The number of samples of parity p on an axis of length n
PhaseCount(n, p) == (n - p + 1) \div 2

\* C21: the reconstructed orientation image derived from an H x W frame has
\* shape (2*(H/2) - 3, 2*(W/2) - 3).
C21_ShapeMinusThree ==
    FrameSplit =>
        \A k \in Returned :
            /\ ex_bil[k].trimmedX.nr = 2 * (Frame.nr \div 2) - 3
            /\ ex_bil[k].trimmedX.nc = 2 * (Frame.nc \div 2) - 3

\* C21 as amended: the reconstructed image do_bilinear returns for an
\* orientation grid of an H x W frame has shape (2*nr - 2, 2*nc - 2), nr x nc
\* being the shape of that grid; for H, W even that is (H - 2, W - 2).
C21_ShapeMinusTwo ==
    FrameSplit =>
        \A k \in Returned :
            /\ WellShaped(ex_bil[k].trimmedX)
            /\ ex_bil[k].trimmedX.nr = 2 * PhaseCount(Frame.nr, Parity(k)[1]) - 2
            /\ ex_bil[k].trimmedX.nc = 2 * PhaseCount(Frame.nc, Parity(k)[2]) - 2
            /\ Frame.nr % 2 = 0 => ex_bil[k].trimmedX.nr = 2 * (Frame.nr \div 2) - 2
            /\ Frame.nc % 2 = 0 => ex_bil[k].trimmedX.nc = 2 * (Frame.nc \div 2) - 2

\* A 6 x 4 frame whose 0 degree reconstruction returned with shape (4, 2)
C21_Witness ==
    /\ FrameSplit
    /\ Frame.nr = 6 /\ Frame.nc = 4
    /\ 1 \in Returned
    /\ ex_bil[1].trimmedX.nr = 4 /\ ex_bil[1].trimmedX.nc = 2

\* C22: every do_bilinear call of the two example scripts passes the offsets
\* of its orientation's phase in the mosaic, (1,1) for 0, (0,1) for 45, (0,0)
\* for 90 and (1,0) for 135 degrees, so that
\* img_array[rowOffset][colOffset] = orientX[0][0].
C22_CallSitesPassPhase ==
    FrameSplit =>
        \A k \in 1..Len(ex_bil) :
            /\ ex_calls[k] = Parity(k)
            /\ (ex_sub[k].nr > 0 /\ ex_sub[k].nc > 0) =>
                   At(ex_sub[k], 0, 0) =
                       FloatScale * At(Frame, ex_calls[k][1], ex_calls[k][2])

\* The call sites of example_polarsens_read_visualize.py do pass the phases
PolarsensCallSitesPassPhase ==
    (FrameSplit /\ call = "example") =>
        \A k \in 1..Len(ex_bil) : ex_calls[k] = Parity(k)

\* The orientation whose phase the sensor pixel (p, q) has
OrientationAt(p, q) == CHOOSE k \in 1..4 : Parity(k) = <<p % 2, q % 2>>

\* C23: after extractSubimages and do_bilinear with the parity offsets the
\* four outputs have one shape, and for every interior sensor pixel (p, q),
\* 1 <= p <= H-2 and 1 <= q <= W-2, the output of the pixel's own orientation
\* holds frame[p][q] at [p-1][q-1].
C23_CoRegistered ==
    (FrameSplit /\ call = "example") =>
        /\ Returned = 1..4
        /\ \A k \in 1..4 : /\ ex_calls[k] = Parity(k)
                            /\ ex_bil[k].trimmedX.nr = ex_bil[1].trimmedX.nr
                            /\ ex_bil[k].trimmedX.nc = ex_bil[1].trimmedX.nc
        /\ \A p \in 1..(Frame.nr - 2), q \in 1..(Frame.nc - 2) :
               At(ex_bil[OrientationAt(p, q)].trimmedX, p - 1, q - 1) =
                   FloatScale * At(Frame, p, q)

----------------------------------------------------------------------------
(* The polarimetry of livestream_pol.py                                    *)

LiveCalled == call = "livestream_pol_frame"

LivePixels == Indices(lp_dolp.nr, lp_dolp.nc)

\* The Stokes values of the pass at pixel p
LiveS(n, p) == At(lp_stokes[n], p[1], p[2])

\* What computeDOLP returns at pixel p for the Stokes arrays of the pass
ComputeDolpAt(p) ==
    At(ComputeDOLP(lp_stokes[1], lp_stokes[2], lp_stokes[3]), p[1], p[2])

\* C24: for the same Stokes values getDolpFromStokes returns exactly what
\* computeDOLP returns where S0 # 0, nothing being added to the denominator,
\* and a non-finite value where S0 = 0.
C24_LiveDolpAgrees ==
    LiveCalled =>
        \A p \in LivePixels :
            /\ LiveS(1, p) # 0 => At(lp_dolp, p[1], p[2]) = ComputeDolpAt(p)
            /\ LiveS(1, p) = 0 => At(lp_dolp, p[1], p[2]).kind # "finite"

\* Where they differ getDolpFromStokes is the smaller: S0 + 1 divides
LiveDolpOnlyEqualAtZero ==
    LiveCalled =>
        \A p \in LivePixels :
            (LiveS(1, p) # 0 /\ At(lp_dolp, p[1], p[2]) = ComputeDolpAt(p)) =>
                (LiveS(2, p) = 0 /\ LiveS(3, p) = 0)

----------------------------------------------------------------------------
(* Waiting for a device                                                    *)

DeviceCalled == call = "update_create_devices"

\* Whether a device is connected within the 30 seconds of three attempts
ConnectedInTime == dev_connected >= 0 /\ dev_connected <= tries_max * sleep_time_secs

\* C25: when no device is ever detected the routine calls
\* system.create_device tries_max = 3 times, waits sleep_time_secs = 10
\* seconds after each failed attempt and only then raises 'No device found';
\* when an attempt detects devices it returns at once without further
\* waiting.
C25_ThreeAttempts ==
    DeviceCalled =>
        /\ dev_connected = -1 =>
               /\ status = "Exception"
               /\ dev_created = tries_max
               /\ dev_slept = tries_max * sleep_time_secs
        /\ status = "returned" =>
               /\ Detected(dev_connected, dev_slept)
               /\ dev_slept = sleep_time_secs * (dev_created - 1)

\* The routine makes one attempt: it returns a device that is connected
\* when it is called, and otherwise raises after ten seconds
DeviceWaitsOnce ==
    DeviceCalled =>
        /\ dev_created = 1
        /\ dev_connected = 0 => (status = "returned" /\ dev_slept = 0)
        /\ dev_connected # 0 =>
               /\ status = "Exception"
               /\ dev_slept = sleep_time_secs
               /\ dev_tries = sleep_time_secs

----------------------------------------------------------------------------
(* The buffers of the live-stream loops                                    *)

LsCalled == call = "livestream"

\* Nothing is held: every buffer is requeued and every copy destroyed
AllReleased == ls_held = 0 /\ ls_copies = 0

\* The loop was left: the stream is about to be stopped, or later
LoopLeft == ls_pc \in {"stop_stream", "destroy_device", "done"}

\* C26: in both live-stream loops every buffer got with get_buffer is
\* requeued and every copy made with BufferFactory.copy is destroyed before
\* the next get_buffer and before the stream is stopped and the device
\* destroyed, on every exit path: ESC in livestream_phx, KeyboardInterrupt
\* at any point of the loop body in livestream_pol.
C26_BuffersReleased ==
    LsCalled =>
        /\ ls_pc = "get_buffer" => AllReleased
        /\ LoopLeft => AllReleased

\* The loop of livestream_phx.py releases everything on its exit by ESC,
\* and both loops do before every get_buffer
PhxLoopReleases ==
    LsCalled =>
        /\ ls_pc = "get_buffer" => AllReleased
        /\ (ls_script = "phx" /\ LoopLeft) => AllReleased

----------------------------------------------------------------------------
(* The four grids as a partition of the frame                              *)

\* The cells <<k, i, j>> of the four grids extractSubimages returned
GridCells ==
    UNION {{<<k, p[1], p[2]>> : p \in Indices(subimages[k].nr, subimages[k].nc)} :
           k \in 1..4}

\* The cell of the four grids that the sensor pixel (r, c) belongs to
CellOf(r, c) == <<OrientationAt(r, c), r \div 2, c \div 2>>

\* Whether the samples of the frame are pairwise different
DistinctSamples ==
    LET pixels == Indices(img_array_2d.nr, img_array_2d.nc)
    IN  Cardinality({At(img_array_2d, p[1], p[2]) : p \in pixels}) = Cardinality(pixels)

\* C27: the four grids extractSubimages returns partition an H x W frame, H
\* and W even: every sensor pixel (r, c) appears in exactly one grid, that
\* of its parity, at [r div 2][c div 2], and every grid cell comes from
\* exactly one sensor pixel.  CellOf maps the pixels onto the cells, as many
\* as the pixels; each cell holds the sample of its pixel, and the cells of
\* a frame of different samples hold different samples.
C27_Partition ==
    call = "extractSubimages" =>
        LET pixels == Indices(img_array_2d.nr, img_array_2d.nc)
            cells  == GridCells
        IN  /\ {CellOf(p[1], p[2]) : p \in pixels} = cells
            /\ Cardinality(cells) = Cardinality(pixels)
            /\ \A p \in pixels :
                   At(subimages[CellOf(p[1], p[2])[1]], p[1] \div 2, p[2] \div 2) =
                       FloatScale * At(img_array_2d, p[1], p[2])
            /\ DistinctSamples =>
                   Cardinality({At(subimages[cell[1]], cell[2], cell[3]) : cell \in cells})
                       = Cardinality(cells)

\* A 4 x 6 frame of 24 different samples was split
C27_Witness ==
    /\ call = "extractSubimages"
    /\ img_array_2d.nr = 4 /\ img_array_2d.nc = 6
    /\ DistinctSamples
    /\ Cardinality(GridCells) = 24

----------------------------------------------------------------------------
(* The interpolated values of do_bilinear                                  *)

\* The sample grid[i][j] and the values interpolated from it, as lines
\* 151-160 laid them out in orientXfull
Grid(i, j) == At(orientX, i, j)

VAvAt(i, j) == At(orientXfull, 2 * i + 1, 2 * j)

HAvAt(i, j) == At(orientXfull, 2 * i, 2 * j + 1)

MidAt(i, j) == At(orientXfull, 2 * i + 1, 2 * j + 1)

Min4(a, b, c, d) == Min(Min(a, b), Min(c, d))

Max4(a, b, c, d) == Max(Max(a, b), Max(c, d))

\* C28: the centre value of do_bilinear is the mean of the four surrounding
\* samples whatever the order of averaging,
\* mid[i][j] = (grid[i][j] + grid[i+1][j] + grid[i][j+1] + grid[i+1][j+1])/4
\*           = (hAv[i][j] + hAv[i+1][j])/2,
\* and every interpolated value lies between the least and the greatest of
\* the samples it averages.
C28_MidIsMeanOfFour ==
    BilinearCalled =>
        /\ \A i \in 0..(orientX.nr - 2), j \in 0..(orientX.nc - 2) :
               /\ 4 * MidAt(i, j) =
                      Grid(i, j) + Grid(i + 1, j) + Grid(i, j + 1) + Grid(i + 1, j + 1)
               /\ 2 * MidAt(i, j) = HAvAt(i, j) + HAvAt(i + 1, j)
               /\ 2 * MidAt(i, j) = VAvAt(i, j) + VAvAt(i, j + 1)
               /\ MidAt(i, j) >= Min4(Grid(i, j), Grid(i + 1, j),
                                      Grid(i, j + 1), Grid(i + 1, j + 1))
               /\ MidAt(i, j) <= Max4(Grid(i, j), Grid(i + 1, j),
                                      Grid(i, j + 1), Grid(i + 1, j + 1))
        /\ \A i \in 0..(orientX.nr - 2), j \in 0..(orientX.nc - 1) :
               /\ VAvAt(i, j) >= Min(Grid(i, j), Grid(i + 1, j))
               /\ VAvAt(i, j) <= Max(Grid(i, j), Grid(i + 1, j))
        /\ \A i \in 0..(orientX.nr - 1), j \in 0..(orientX.nc - 2) :
               /\ HAvAt(i, j) >= Min(Grid(i, j), Grid(i, j + 1))
               /\ HAvAt(i, j) <= Max(Grid(i, j), Grid(i, j + 1))

\* A centre value strictly between its four samples, three of them equal:
\* it is neither a sample nor the mean of two
C28_Witness ==
    /\ BilinearCalled
    /\ \E i \in 0..(orientX.nr - 2), j \in 0..(orientX.nc - 2) :
          /\ Grid(i, j) = Grid(i + 1, j) /\ Grid(i, j) = Grid(i, j + 1)
          /\ Grid(i + 1, j + 1) > Grid(i, j)
          /\ 4 * MidAt(i, j) = 3 * Grid(i, j) + Grid(i + 1, j + 1)

----------------------------------------------------------------------------
(* The range of DoLP                                                       *)

\* Whether the four intensities at pixel p are non-negative with S0 > 0
Physical(p) ==
    /\ I000(p) >= 0 /\ I045(p) >= 0 /\ I090(p) >= 0 /\ I135(p) >= 0
    /\ S0(p) > 0

\* C29: for non-negative intensities with S0 > 0 the DoLP of computeStokes
\* followed by computeDOLP lies in [0, 200]: S1^2 + S2^2 <= 4 * S0^2, that is
\* 10000*(S1^2 + S2^2) <= 40000*S0^2, for every quadruple
\* (I000, I045, I090, I135).
C29_DolpAtMost200 ==
    (PolCalled /\ EqualShapes) =>
        \A p \in Pixels :
            Physical(p) =>
                /\ (S1(p) * S1(p)) + (S2(p) * S2(p)) <= 4 * S0(p) * S0(p)
                /\ Dolp(p).kind = "finite"
                /\ Dolp(p).sign >= 0
                /\ Dolp(p).coef = 100
                /\ Dolp(p).num <= 4 * Dolp(p).den

\* Non-negative intensities whose DoLP is above 100 and below 200
C29_Witness ==
    /\ PolCalled /\ EqualShapes /\ status = "returned"
    /\ \E p \in Pixels :
          /\ Physical(p)
          /\ I045(p) > 0
          /\ Dolp(p).num > Dolp(p).den
          /\ Dolp(p).num < 4 * Dolp(p).den

----------------------------------------------------------------------------
(* The three mosaic splitters                                              *)

SplitCalled == call = "split_poldata"

\* The place of the polarizer angle of a written file among 0, 45, 90, 135
AngleIndex(ang) == CHOOSE k \in 1..4 : <<0, 45, 90, 135>>[k] = ang

\* The first row and column a crop retains
CropOrigin(sw) == IF sw = "N.I.N.A." THEN <<CROP_ROWS, CROP_COLS>> ELSE <<0, 0>>

\* Whether the written file f holds, cell by cell, the pixels of the raw
\* image that extractSubimages gives the same orientation
SameLabels(f) ==
    LET raw    == sp_images[f.image].raw
        origin == CropOrigin(sp_images[f.image].sw)
        k      == AngleIndex(f.POL_ANG)
        before == ExtractSubimages(raw)[k]
    IN  /\ f.data.nr = PhaseCount(raw.nr - CROP_ROWS, Parity(k)[1])
        /\ f.data.nc = PhaseCount(raw.nc - CROP_COLS, Parity(k)[2])
        /\ \A p \in Indices(f.data.nr, f.data.nc) :
               LET r == origin[1] + 2 * p[1] + Parity(k)[1]
                   c == origin[2] + 2 * p[2] + Parity(k)[2]
               IN  /\ At(f.data, p[1], p[2]) = At(raw, r, c) \div 16
                   /\ OrientationAt(r, c) = k
                   /\ At(before, r \div 2, c \div 2) = FloatScale * At(raw, r, c)

\* C30: the three mosaic splitters give every sensor pixel the same
\* orientation: getHalfResStokesFromFullResImage forms the Stokes values of
\* the grids of extractSubimages, and split_poldata, after its crops
\* [0:-22, 0:-12] and [22:, 12:], which keep the parity of every retained
\* pixel, writes under each angle the pixels extractSubimages labels with it.
C30_SplittersAgree ==
    /\ LiveCalled =>
           LET sub == ExtractSubimages(lp_img)
               st  == ComputeStokes(sub[1], sub[2], sub[3], sub[4])
           IN  lp_stokes = <<st.S0, st.S1, st.S2>>
    /\ SplitCalled =>
           /\ \A n \in 1..Len(sp_written) : SameLabels(sp_written[n])
           /\ status = "returned" => Len(sp_written) = 4 * Len(sp_images)

\* Two images were split, one of each software
C30_Witness ==
    /\ SplitCalled /\ status = "returned"
    /\ Len(sp_written) = 8
    /\ sp_images[1].sw = "SharpCap" /\ sp_images[2].sw = "N.I.N.A."
    /\ sp_written[5].data.nr = 2 /\ sp_written[5].data.nc = 1
    /\ At(sp_written[5].data, 1, 0) # At(sp_written[1].data, 1, 0)

====
